---------------------------- MODULE Spec2Model ----------------------------
(***************************************************************************)
(* GRatekeeper: the local rate-limit governor (LocalGratekeeper), the      *)
(* request pipeline of RateLimitedGitHubClient with its kill-switch gate,  *)
(* listener fan-out and the poller's wait/reset signalling.                *)
(*                                                                         *)
(* Optional values (Python's Optional[...]) are sequences of length <= 1:  *)
(* None is <<>> and a set value x is <<x>>.  Header strings are sequences  *)
(* of one-character strings, so that int() is a real parser here.          *)
(***************************************************************************)
EXTENDS Integers, Sequences, FiniteSets, TLC

\* ------------------------------------------------------------------ bounds

\* The clock (UNIX seconds) runs over 0..MaxNow.
MaxNow == 3

\* ------------------------------------------------------------ optional values

None == <<>>

Some(x) == <<x>>

IsSet(o) == o # None

Val(o) == o[1]

Max(a, b) == IF a >= b THEN a ELSE b

\* int() on a non-negative quotient num/den truncates toward zero.
TruncDiv(n, d) == IF n >= 0 THEN n \div d ELSE -((-n) \div d)

\* ------------------------------------------------------------ the domains

Threads == {"main"}

\* Two threads sharing one client.
Workers == {"main", "worker"}

\* The thread of the poller loop ("GratekeeperPoller"), and the threads of a
\* client with a poller.
PollerThread == "poller"

Callers == {"main", PollerThread}

\* The threads a poller loop may run on: start_rate_limit_polling creates a
\* new thread each time, and at most two of them are alive here.
Loops == {PollerThread, "poller2"}

\* The threads of a client whose poller is started and stopped.
LifecycleThreads == {"main"} \cup Loops

Buckets == {"core", "graphql"}

\* The bucket whose traffic is modelled; the other one is never observed.
Observed == {"core"}

Listeners == {"l1"}

\* Two callbacks, where the order and the number of listeners matter.
Callbacks == {"l1", "l2"}

HLimit == "X-RateLimit-Limit"

HRemaining == "X-RateLimit-Remaining"

HReset == "X-RateLimit-Reset"

HeaderNames == {HLimit, HRemaining, HReset}

\* The header strings a response may carry: blank, non-numeric (though it
\* starts with a digit) and numeric (one of them with a leading zero).
HeaderValues ==
    { <<>>, <<"3", "x">>, <<"0">>, <<"3">>, <<"0", "3">> }

\* Every mapping from a subset of the three header names to a header string.
HeaderMaps ==
    UNION { [S -> HeaderValues] : S \in SUBSET HeaderNames }

Headers(limit, remaining, reset) ==
    (HLimit :> limit) @@ (HRemaining :> remaining) @@ (HReset :> reset)

\* The headers the transport's responses carry: none at all, all three
\* (remaining above the floor, at zero, the reset already past), only one,
\* and a mix of unparseable and parseable ones.
ResponseHeaders ==
    { <<>>,
      Headers(<<"3">>, <<"3">>, <<"3">>),
      Headers(<<"3">>, <<"0">>, <<"3">>),
      Headers(<<"3">>, <<"3">>, <<"0">>),
      (HRemaining :> <<"3">>),
      Headers(<<"3", "x">>, <<>>, <<"0", "3">>) }

StatusCodes == {200, 404}

Responses == [status_code : StatusCodes, headers : ResponseHeaders]

\* Constructor arguments of LocalGratekeeper: soft_floor_fraction is the
\* rational num/den (0.5 is exact as a float), then soft_floor_min and
\* safety_buffer_seconds.
Configs ==
    { [num |-> 1, den |-> 2, soft_floor_min |-> 1, safety_buffer_seconds |-> 3],
      [num |-> 1, den |-> 2, soft_floor_min |-> 0, safety_buffer_seconds |-> 1] }

Reasons == {None, Some("maintenance")}

\* The deadlines given to set_killswitch: none, or one the clock crosses.
Deadlines == {None, Some(MaxNow - 1)}

\* Delays passed to schedule_killswitch(after_seconds=...): negative, zero
\* and one that ends within the clock's range.
Delays == {-1, 0, MaxNow - 1}

\* ------------------------------------------------------------ BucketState

\* Mutant of BucketState: a new bucket starts at zero instead of unset.
BucketStateZero == [limit |-> Some(0), remaining |-> Some(0), reset_ts |-> None]

\* BucketState(): all three fields default to None.
BucketState == [limit |-> None, remaining |-> None, reset_ts |-> None]

\* dict.setdefault(bucket, BucketState())
SetDefault(bs, b) == IF b \in DOMAIN bs THEN bs ELSE bs @@ (b :> BucketState)

\* LocalGratekeeper.snapshot: a copy of the (lazily created) bucket state.
Snapshot(bs, b) == SetDefault(bs, b)[b]

\* ------------------------------------------------------------ header parsing

DigitChars == {"0", "1", "2", "3", "4", "5", "6", "7", "8", "9"}

DigitVal(c) ==
    CASE c = "0" -> 0 [] c = "1" -> 1 [] c = "2" -> 2 [] c = "3" -> 3
      [] c = "4" -> 4 [] c = "5" -> 5 [] c = "6" -> 6 [] c = "7" -> 7
      [] c = "8" -> 8 [] c = "9" -> 9

RECURSIVE StripLeft(_)
StripLeft(s) ==
    IF s # <<>> /\ Head(s) = " " THEN StripLeft(Tail(s)) ELSE s

RECURSIVE StripRight(_)
StripRight(s) ==
    IF s # <<>> /\ s[Len(s)] = " " THEN StripRight(SubSeq(s, 1, Len(s) - 1)) ELSE s

RECURSIVE DigitsValue(_, _)
DigitsValue(s, acc) ==
    IF s = <<>> THEN acc ELSE DigitsValue(Tail(s), 10 * acc + DigitVal(Head(s)))

AllDigits(s) == s # <<>> /\ \A i \in 1..Len(s) : s[i] \in DigitChars

\* int(str): surrounding blanks dropped, an optional sign, then decimal
\* digits; anything else raises ValueError, here None.
PyInt(str) ==
    LET s == StripRight(StripLeft(str))
        signed == s # <<>> /\ Head(s) \in {"+", "-"}
        body == IF signed THEN Tail(s) ELSE s
    IN  IF ~AllDigits(body) THEN None
        ELSE IF signed /\ Head(s) = "-" THEN Some(-DigitsValue(body, 0))
        ELSE Some(DigitsValue(body, 0))

\* headers.get(name): None when the header is missing.
HeadersGet(headers, name) ==
    IF name \in DOMAIN headers THEN Some(headers[name]) ELSE None

\* LocalGratekeeper._parse_int_header
ParseIntHeader(value) ==
    IF value = None THEN None ELSE PyInt(Val(value))


\* ------------------------------------------------------------------ state

VARIABLES
    cfg,                \* LocalGratekeeper's soft floor and safety buffer
    enable_ratekeeping, \* RateLimitedGitHubClient._enable_ratekeeping
    now,                \* the clock read by _now() and time.time()
    buckets,            \* LocalGratekeeper._buckets: bucket name -> BucketState
    keeper_lock,        \* LocalGratekeeper._lock: the thread holding it
    killswitch_until,   \* RateLimitedGitHubClient._killswitch_until
    killswitch_reason,  \* RateLimitedGitHubClient._killswitch_reason
    killswitch_scheduled, \* the schedule_killswitch call behind the deadline
    rate_listeners,     \* RateLimitedGitHubClient._rate_listeners
    poll_thread,        \* RateLimitedGitHubClient._poll_thread (the handle)
    poll_pc,            \* where the poller loop is: none, wait, woken_signal,
                        \* woken_timeout, poll, exited
    poll_pc2,           \* the same for a loop started while the first lives
    poll_stop_event,    \* RateLimitedGitHubClient._poll_stop_event
    poll_reset_event,   \* RateLimitedGitHubClient._poll_reset_event
    th,                 \* per calling thread: position and locals of its call
    resources,          \* RateLimitTextualApp._resources
    meta,               \* RateLimitTextualApp._meta (DashboardMeta)
    fetch,              \* the dashboard's _fetch_rate_limit call under way
    conn,               \* one connection to the dashboard's bridge socket
    applied             \* the updates applied to the dashboard, per bucket

vars ==
    << cfg, enable_ratekeeping, now, buckets, keeper_lock, killswitch_until,
       killswitch_reason, killswitch_scheduled, rate_listeners, poll_thread,
       poll_pc, poll_pc2, poll_stop_event, poll_reset_event, th,
       resources, meta, fetch, conn, applied >>

governor == << cfg, enable_ratekeeping, buckets, keeper_lock >>

\* The dashboard (RateLimitTextualApp) with its bridge socket.  applied
\* records, for the properties below, what was applied to the dashboard.
monitor == << resources, meta, fetch, conn, applied >>

\* killswitch_scheduled records, for the properties below, the time and the
\* delay of the schedule_killswitch call that set the current deadline
\* (None when the deadline is unset or was set otherwise).
killswitch == << killswitch_until, killswitch_reason, killswitch_scheduled >>

poller ==
    << poll_thread, poll_pc, poll_pc2, poll_stop_event, poll_reset_event >>

NoResult == [kind |-> "none", until |-> None, reason |-> None]

\* A thread outside any call.  call is what the caller has called: a request
\* of the client ("request"), the keeper's before_request or after_response,
\* schedule_killswitch with its arguments after_seconds and reason, or
\* add_/remove_rate_limit_listener with its argument listener (registry
\* records the listener list the call found).  response is _request's
\* local, headers the argument of after_response.  entry, slept, calls,
\* notified and registry record the call for the properties below: the
\* bucket's state when the call started, the sleep_fn calls, the transport
\* calls, the listener invocations and the listener list a pass copied.
IdleThread ==
    [ pc |-> "idle", call |-> "request", bucket |-> "core",
      raise_for_status |-> TRUE, sleep_for |-> None, headers |-> None,
      response |-> None, updated |-> FALSE, listeners |-> <<>>,
      snapshot |-> BucketState, result |-> NoResult, entry |-> BucketState,
      slept |-> <<>>, calls |-> 0, notified |-> <<>>,
      after_seconds |-> 0, reason |-> None,
      listener |-> None, registry |-> <<>> ]

\* The lines a writer may send on a connection.
MaxLines == 3

\* The bridge socket and one connection to it, from before it is made
\* ("none") to after the reader has closed it: whether the dashboard's
\* server listens, the reader's position, the bytes written and not yet
\* read, whether the writer has closed its end and how many lines it wrote;
\* and, for the record, the lines read, the updates handed to the handler,
\* and the argument and the result of emit_update.
ConnIdle ==
    [listening |-> FALSE, pc |-> "none", buffer |-> <<>>, eof |-> FALSE,
     written |-> 0, read |-> <<>>, delivered |-> <<>>, emitted |-> None,
     returned |-> None]

\* No _fetch_rate_limit call under way.  force and now are the call's
\* argument and local, caller is who called _fetch_cycle, outcome what the
\* last call did: "skipped", "applied", "error" ("none" before any).
FetchIdle ==
    [pc |-> "idle", force |-> FALSE, now |-> 0, caller |-> "none",
     outcome |-> "none"]

\* RateLimitTextualApp.__init__: no resources, an empty DashboardMeta, no
\* fetch under way; and no connection to the bridge socket yet.
MonitorInit ==
    /\ resources = <<>>
    /\ meta = [last_update_ts |-> None, last_update_source |-> None,
               last_error |-> None]
    /\ fetch = FetchIdle
    /\ conn = ConnIdle
    /\ applied = [last |-> <<>>, at |-> None]

\* A LocalGratekeeper after construction (no client around it).
KeeperInit ==
    /\ cfg \in Configs
    /\ enable_ratekeeping = TRUE
    /\ now = 0
    /\ buckets = <<>>
    /\ keeper_lock = None
    /\ killswitch_until = None
    /\ killswitch_reason = None
    /\ killswitch_scheduled = None
    /\ rate_listeners = <<>>
    /\ poll_thread = None
    /\ poll_pc = "none"
    /\ poll_pc2 = "none"
    /\ poll_stop_event = FALSE
    /\ poll_reset_event = FALSE
    /\ MonitorInit
    /\ th = [t \in Threads |-> IdleThread]

\* A RateLimitedGitHubClient after construction.
Init ==
    /\ cfg \in Configs
    /\ enable_ratekeeping \in BOOLEAN
    /\ now = 0
    /\ buckets = <<>>
    /\ keeper_lock = None
    /\ killswitch_until = None
    /\ killswitch_reason = None
    /\ killswitch_scheduled = None
    /\ rate_listeners = <<>>
    /\ poll_thread = None
    /\ poll_pc = "none"
    /\ poll_pc2 = "none"
    /\ poll_stop_event = FALSE
    /\ poll_reset_event = FALSE
    /\ MonitorInit
    /\ th = [t \in Threads |-> IdleThread]

\* A RateLimitedGitHubClient after construction (ratekeeping enabled, as by
\* default), about to be used by two threads.
SharedInit ==
    /\ cfg \in Configs
    /\ enable_ratekeeping = TRUE
    /\ now = 0
    /\ buckets = <<>>
    /\ keeper_lock = None
    /\ killswitch_until = None
    /\ killswitch_reason = None
    /\ killswitch_scheduled = None
    /\ rate_listeners = <<>>
    /\ poll_thread = None
    /\ poll_pc = "none"
    /\ poll_pc2 = "none"
    /\ poll_stop_event = FALSE
    /\ poll_reset_event = FALSE
    /\ MonitorInit
    /\ th = [t \in Workers |-> IdleThread]

\* A RateLimitedGitHubClient after construction, about to be used by two
\* threads, one configuration.
GateInit ==
    /\ cfg = [num |-> 1, den |-> 2, soft_floor_min |-> 1,
              safety_buffer_seconds |-> 3]
    /\ enable_ratekeeping = TRUE
    /\ now = 0
    /\ buckets = <<>>
    /\ keeper_lock = None
    /\ killswitch_until = None
    /\ killswitch_reason = None
    /\ killswitch_scheduled = None
    /\ rate_listeners = <<>>
    /\ poll_thread = None
    /\ poll_pc = "none"
    /\ poll_pc2 = "none"
    /\ poll_stop_event = FALSE
    /\ poll_reset_event = FALSE
    /\ MonitorInit
    /\ th = [t \in Workers |-> IdleThread]

\* A RateLimitedGitHubClient after construction (ratekeeping enabled, as by
\* default), with the thread its poller loop will run on.
PollerInit ==
    /\ cfg \in Configs
    /\ enable_ratekeeping = TRUE
    /\ now = 0
    /\ buckets = <<>>
    /\ keeper_lock = None
    /\ killswitch_until = None
    /\ killswitch_reason = None
    /\ killswitch_scheduled = None
    /\ rate_listeners = <<>>
    /\ poll_thread = None
    /\ poll_pc = "none"
    /\ poll_pc2 = "none"
    /\ poll_stop_event = FALSE
    /\ poll_reset_event = FALSE
    /\ MonitorInit
    /\ th = [t \in Callers |-> IdleThread]

\* A RateLimitedGitHubClient after construction (ratekeeping enabled, as by
\* default), with the threads its poller loops will run on.
LifecycleInit ==
    /\ cfg \in Configs
    /\ enable_ratekeeping = TRUE
    /\ now = 0
    /\ buckets = <<>>
    /\ keeper_lock = None
    /\ killswitch_until = None
    /\ killswitch_reason = None
    /\ killswitch_scheduled = None
    /\ rate_listeners = <<>>
    /\ poll_thread = None
    /\ poll_pc = "none"
    /\ poll_pc2 = "none"
    /\ poll_stop_event = FALSE
    /\ poll_reset_event = FALSE
    /\ MonitorInit
    /\ th = [t \in LifecycleThreads |-> IdleThread]

\* ------------------------------------------------------------ the governor

\* Mutant of WindowReset: a bucket without a reset timestamp counts as
\* reset too.
WindowResetOrUnset(state, nw) ==
    ~IsSet(state.reset_ts) \/ nw >= Val(state.reset_ts)

\* Mutant of WindowReset: the window counts as reset only after its
\* timestamp, not at it.
WindowResetStrict(state, nw) ==
    IsSet(state.reset_ts) /\ nw > Val(state.reset_ts)

\* before_request: the window's reset timestamp has passed.
WindowReset(state, nw) ==
    IsSet(state.reset_ts) /\ nw >= Val(state.reset_ts)

\* before_request: max(int(limit * soft_floor_fraction), soft_floor_min)
SoftFloor(c, limit) ==
    Max(TruncDiv(limit * c.num, c.den), c.soft_floor_min)

\* Mutant of UnderFloor: the floor is compared with the remaining quota
\* after the request, one less than what is stored.
UnderFloorOffByOne(c, state, nw) ==
    /\ Val(state.remaining) - 1 <= SoftFloor(c, Val(state.limit))
    /\ IsSet(state.reset_ts)
    /\ nw < Val(state.reset_ts)

\* before_request: at or under the soft floor with the reset still ahead.
UnderFloor(c, state, nw) ==
    /\ Val(state.remaining) <= SoftFloor(c, Val(state.limit))
    /\ IsSet(state.reset_ts)
    /\ nw < Val(state.reset_ts)

\* Mutant of SleepFor: the safety buffer is forgotten.
SleepForNoBuffer(c, state, nw) ==
    Max(Val(state.reset_ts) - nw, 0)

\* before_request: max(reset_ts - now + safety_buffer_seconds, 0)
SleepFor(c, state, nw) ==
    Max(Val(state.reset_ts) - nw + c.safety_buffer_seconds, 0)

\* Mutant of Decrement: the request is counted twice.
DecrementTwice(state) ==
    [state EXCEPT !.remaining = Some(Val(state.remaining) - 2)]

\* before_request: the speculative decrement.
Decrement(state) ==
    [state EXCEPT !.remaining = Some(Val(state.remaining) - 1)]

\* Mutant of HasQuota: the decrement does not look at what is left.
HasQuotaAlways(state) == TRUE

\* before_request: "elif state.remaining > 0"
HasQuota(state) == Val(state.remaining) > 0

\* before_request: limit, remaining and reset_ts are set to None.
ClearWindow(state) ==
    [state EXCEPT !.limit = None, !.remaining = None, !.reset_ts = None]

\* before_request, the part under the lock: the new bucket state and the
\* sleep it asks for (None: no sleep).
BeforeRequestLocked(c, state, nw) ==
    LET s1 == IF WindowReset(state, nw) THEN ClearWindow(state) ELSE state
    IN  IF s1.limit = None \/ s1.remaining = None
            THEN [state |-> s1, sleep_for |-> None]
        ELSE IF UnderFloor(c, s1, nw)
            THEN [state |-> s1, sleep_for |-> Some(SleepFor(c, s1, nw))]
        ELSE IF HasQuota(s1)
            THEN [state |-> Decrement(s1), sleep_for |-> None]
        ELSE [state |-> s1, sleep_for |-> None]

\* before_request: "if sleep_for and sleep_for > 0"
ShouldSleep(sleep_for) ==
    IsSet(sleep_for) /\ Val(sleep_for) # 0 /\ Val(sleep_for) > 0

\* Mutant of Overwrite: a header only fills a field that is still unset.
OverwriteUnset(old, parsed) ==
    IF parsed # None /\ old = None THEN parsed ELSE old

\* Mutant of Overwrite: a header that does not parse unsets its field.
OverwriteAlways(old, parsed) == parsed

\* after_response: a parsed header overwrites its field, a None leaves it.
Overwrite(old, parsed) == IF parsed # None THEN parsed ELSE old

\* Mutant of Updated: only the remaining header counts as an update.
UpdatedByRemaining(limit, remaining, reset) == remaining # None

\* after_response: whether any value was assigned.
Updated(limit, remaining, reset) ==
    limit # None \/ remaining # None \/ reset # None

\* Mutant of AfterResponseLocked: the store of the reset timestamp is lost
\* when another response has already set one.
AfterResponseLockedTorn(state, headers) ==
    LET limit == ParseIntHeader(HeadersGet(headers, HLimit))
        remaining == ParseIntHeader(HeadersGet(headers, HRemaining))
        reset == ParseIntHeader(HeadersGet(headers, HReset))
    IN  [ state |-> [ limit |-> Overwrite(state.limit, limit),
                      remaining |-> Overwrite(state.remaining, remaining),
                      reset_ts |-> IF state.reset_ts = None
                                       THEN reset ELSE state.reset_ts ],
          updated |-> Updated(limit, remaining, reset) ]

\* after_response, the part under the lock: the new bucket state and the
\* returned flag.
AfterResponseLocked(state, headers) ==
    LET limit == ParseIntHeader(HeadersGet(headers, HLimit))
        remaining == ParseIntHeader(HeadersGet(headers, HRemaining))
        reset == ParseIntHeader(HeadersGet(headers, HReset))
    IN  [ state |-> [ limit |-> Overwrite(state.limit, limit),
                      remaining |-> Overwrite(state.remaining, remaining),
                      reset_ts |-> Overwrite(state.reset_ts, reset) ],
          updated |-> Updated(limit, remaining, reset) ]

\* ------------------------------------------------------------ the kill-switch

\* Mutant of GateBlocked: a request at the deadline itself is still blocked.
GateBlockedInclusive(until, nw) == nw <= until

\* _request: "now < self._killswitch_until"
GateBlocked(until, nw) == nw < until

\* _request: the RuntimeError raised by an active kill-switch.
BlockedError(until, reason) ==
    [ kind |-> "Blocked", until |-> Some(until),
      reason |-> IF IsSet(reason) THEN reason ELSE Some("killswitch active") ]


\* ------------------------------------------------------------ thread steps

At(t, where) == th[t].pc = where

Goto(t, r) == th' = [th EXCEPT ![t] = r]

Failure(kind) == [kind |-> kind, until |-> None, reason |-> None]

Ok == [kind |-> "ok", until |-> None, reason |-> None]

\* ---- LocalGratekeeper, called by the pipeline or directly

\* Where before_request returns to.
AfterBefore(r) == IF r.call = "request" THEN "transport" ELSE "done"

\* Mutant of LockAtSleep: the sleep is inside the "with self._lock" block.
LockHeldAtSleep(t) == Some(t)

\* before_request: the "with self._lock" block has ended when _sleep_fn is
\* called, so nobody holds the lock on behalf of the sleeper.
LockAtSleep(t) == None

\* Mutant of BeforeRequest: the bucket is read when the call starts, before
\* the lock is taken, and the result is written back under the lock.
BeforeRequestStale(t) ==
    /\ At(t, "before")
    /\ keeper_lock = None
    /\ LET b == th[t].bucket
           bs == SetDefault(buckets, b)
           r == BeforeRequestLocked(cfg, th[t].entry, now)
       IN  /\ buckets' = [bs EXCEPT ![b] = r.state]
           /\ keeper_lock' = IF ShouldSleep(r.sleep_for)
                                 THEN LockAtSleep(t) ELSE None
           /\ Goto(t, [th[t] EXCEPT
                         !.sleep_for = r.sleep_for,
                         !.pc = IF ShouldSleep(r.sleep_for)
                                    THEN "sleep" ELSE AfterBefore(th[t]),
                         !.result = IF ShouldSleep(r.sleep_for)
                                       \/ th[t].call = "request"
                                        THEN NoResult ELSE Ok])
    /\ UNCHANGED << cfg, enable_ratekeeping, now, killswitch,
                    rate_listeners, poller, monitor >>

\* before_request(bucket), up to the release of the lock.
BeforeRequest(t) ==
    /\ At(t, "before")
    /\ keeper_lock = None
    /\ LET b == th[t].bucket
           bs == SetDefault(buckets, b)
           r == BeforeRequestLocked(cfg, bs[b], now)
       IN  /\ buckets' = [bs EXCEPT ![b] = r.state]
           /\ keeper_lock' = IF ShouldSleep(r.sleep_for)
                                 THEN LockAtSleep(t) ELSE None
           /\ Goto(t, [th[t] EXCEPT
                         !.sleep_for = r.sleep_for,
                         !.pc = IF ShouldSleep(r.sleep_for)
                                    THEN "sleep" ELSE AfterBefore(th[t]),
                         !.result = IF ShouldSleep(r.sleep_for)
                                       \/ th[t].call = "request"
                                        THEN NoResult ELSE Ok])
    /\ UNCHANGED << cfg, enable_ratekeeping, now, killswitch,
                    rate_listeners, poller, monitor >>

\* before_request: "self._sleep_fn(sleep_for)", outside the lock.  How long
\* the call takes is the clock's business (Tick).
Sleep(t) ==
    /\ At(t, "sleep")
    /\ Goto(t, [th[t] EXCEPT
                  !.slept = Append(@, Val(th[t].sleep_for)),
                  !.pc = AfterBefore(th[t]),
                  !.result = IF th[t].call = "request" THEN NoResult ELSE Ok])
    /\ UNCHANGED << governor, now, killswitch, rate_listeners, poller,
                    monitor >>

\* after_response(headers, bucket): the headers are consumed, the flag is
\* returned.
AfterResponse(t) ==
    /\ At(t, "after")
    /\ keeper_lock = None
    /\ LET b == th[t].bucket
           bs == SetDefault(buckets, b)
           r == AfterResponseLocked(bs[b], Val(th[t].headers))
       IN  /\ buckets' = [bs EXCEPT ![b] = r.state]
           /\ Goto(t, [th[t] EXCEPT
                         !.updated = r.updated,
                         !.headers = None,
                         !.pc = IF th[t].call # "request" THEN "done"
                                ELSE IF r.updated THEN "notify" ELSE "status",
                         !.result = IF th[t].call = "request"
                                        THEN NoResult ELSE Ok])
    /\ UNCHANGED << cfg, enable_ratekeeping, keeper_lock, now, killswitch,
                    rate_listeners, poller, monitor >>

\* keeper.before_request(bucket), called directly.
CallBeforeRequest(t, b) ==
    /\ At(t, "idle")
    /\ Goto(t, [IdleThread EXCEPT !.pc = "before", !.call = "before_request",
                                  !.bucket = b,
                                  !.entry = Snapshot(buckets, b)])
    /\ UNCHANGED << governor, now, killswitch, rate_listeners, poller,
                    monitor >>

\* keeper.after_response(headers, bucket), called directly.
CallAfterResponse(t, headers, b) ==
    /\ At(t, "idle")
    /\ Goto(t, [IdleThread EXCEPT !.pc = "after", !.call = "after_response",
                                  !.bucket = b, !.headers = Some(headers),
                                  !.entry = Snapshot(buckets, b)])
    /\ UNCHANGED << governor, now, killswitch, rate_listeners, poller,
                    monitor >>

\* keeper.snapshot(bucket) / client.rate_limit_snapshot(bucket): only the
\* lazily created entry is a change.
CallSnapshot(t, b) ==
    /\ At(t, "idle")
    /\ keeper_lock = None
    /\ buckets' = SetDefault(buckets, b)
    /\ UNCHANGED << cfg, enable_ratekeeping, keeper_lock, now, killswitch,
                    rate_listeners, poller, th, monitor >>

\* keeper.snapshot(bucket) with its result kept: "replace(state)" under the
\* lock, a copy of the three fields as they are at that moment.
TakeSnapshot(t, b) ==
    /\ At(t, "idle")
    /\ keeper_lock = None
    /\ buckets' = SetDefault(buckets, b)
    /\ Goto(t, [IdleThread EXCEPT !.pc = "done", !.call = "snapshot",
                                  !.bucket = b,
                                  !.snapshot = Snapshot(buckets, b),
                                  !.result = Ok])
    /\ UNCHANGED << cfg, enable_ratekeeping, keeper_lock, now, killswitch,
                    rate_listeners, poller, monitor >>

\* ---- RateLimitedGitHubClient._request

\* _request: "if self._enable_ratekeeping:" before the transport call.
AfterGate == IF enable_ratekeeping THEN "before" ELSE "transport"

\* get / post / graphql -> _request: a new request starts (method.upper()).
Request(t, b, raise) ==
    /\ At(t, "idle")
    /\ Goto(t, [IdleThread EXCEPT !.pc = "gate", !.bucket = b,
                                  !.raise_for_status = raise,
                                  !.entry = Snapshot(buckets, b)])
    /\ UNCHANGED << governor, now, killswitch, rate_listeners, poller,
                    monitor >>

\* _request: "if self._killswitch_until is not None"
GateTest(t) ==
    /\ At(t, "gate")
    /\ Goto(t, [th[t] EXCEPT !.pc = IF killswitch_until # None
                                       THEN "gate_compare" ELSE AfterGate])
    /\ UNCHANGED << governor, now, killswitch, rate_listeners, poller,
                    monitor >>

\* Mutant of GateCompare: the governor's before_request has had the bucket
\* before the request is refused.
GateCompareAfterGovernor(t) ==
    /\ At(t, "gate_compare")
    /\ Goto(t, IF killswitch_until = None
                   THEN [th[t] EXCEPT !.pc = "done",
                                      !.result = Failure("TypeError")]
               ELSE IF GateBlocked(Val(killswitch_until), now)
                   THEN [th[t] EXCEPT !.pc = "done",
                            !.result = BlockedError(Val(killswitch_until),
                                                    killswitch_reason)]
               ELSE [th[t] EXCEPT !.pc = "gate_clear"])
    /\ buckets' =
           [SetDefault(buckets, th[t].bucket) EXCEPT ![th[t].bucket] =
               BeforeRequestLocked(cfg, @, now).state]
    /\ UNCHANGED << cfg, enable_ratekeeping, keeper_lock, now, killswitch,
                    rate_listeners, poller, monitor >>

\* _request: "now = time.time(); if now < self._killswitch_until: raise".
\* A deadline cleared since the test above makes the comparison a TypeError.
GateCompare(t) ==
    /\ At(t, "gate_compare")
    /\ Goto(t, IF killswitch_until = None
                   THEN [th[t] EXCEPT !.pc = "done",
                                      !.result = Failure("TypeError")]
               ELSE IF GateBlocked(Val(killswitch_until), now)
                   THEN [th[t] EXCEPT !.pc = "done",
                            !.result = BlockedError(Val(killswitch_until),
                                                    killswitch_reason)]
               ELSE [th[t] EXCEPT !.pc = "gate_clear"])
    /\ UNCHANGED << governor, now, killswitch, rate_listeners, poller,
                    monitor >>

\* _request: "self.clear_killswitch()" once the deadline has passed.
GateClear(t) ==
    /\ At(t, "gate_clear")
    /\ killswitch_until' = None
    /\ killswitch_reason' = None
    /\ killswitch_scheduled' = None
    /\ Goto(t, [th[t] EXCEPT !.pc = AfterGate])
    /\ UNCHANGED << governor, now, rate_listeners, poller, monitor >>

\* Mutant of TransportRaise: the failure puts the bucket back to what it
\* was when the request started.
TransportRaiseRollsBack(t) ==
    /\ At(t, "transport")
    /\ buckets' = [SetDefault(buckets, th[t].bucket)
                      EXCEPT ![th[t].bucket] = th[t].entry]
    /\ Goto(t, [th[t] EXCEPT !.calls = @ + 1, !.pc = "done",
                             !.result = Failure("TransportError")])
    /\ UNCHANGED << cfg, enable_ratekeeping, keeper_lock, now, killswitch,
                    rate_listeners, poller, monitor >>

\* _request: "self._session.request(...)" raises.
TransportRaise(t) ==
    /\ At(t, "transport")
    /\ Goto(t, [th[t] EXCEPT !.calls = @ + 1, !.pc = "done",
                             !.result = Failure("TransportError")])
    /\ UNCHANGED << governor, now, killswitch, rate_listeners, poller,
                    monitor >>

\* Mutant of TransportReturn: the status is looked at first, and an error
\* status under raise_for_status skips the governor and the listeners.
TransportReturnChecksStatusFirst(t, response) ==
    /\ At(t, "transport")
    /\ LET skip == th[t].raise_for_status /\ response.status_code >= 400
       IN  Goto(t, [th[t] EXCEPT
                      !.calls = @ + 1,
                      !.response = Some(response),
                      !.headers = IF enable_ratekeeping /\ ~skip
                                      THEN Some(response.headers) ELSE None,
                      !.pc = IF enable_ratekeeping /\ ~skip
                                 THEN "after" ELSE "status"])
    /\ UNCHANGED << governor, now, killswitch, rate_listeners, poller,
                    monitor >>

\* _request: "self._session.request(...)" returns a response; then
\* "if self._enable_ratekeeping:" chooses what follows.
TransportReturn(t, response) ==
    /\ At(t, "transport")
    /\ Goto(t, [th[t] EXCEPT
                  !.calls = @ + 1,
                  !.response = Some(response),
                  !.headers = IF enable_ratekeeping
                                  THEN Some(response.headers) ELSE None,
                  !.pc = IF enable_ratekeeping THEN "after" ELSE "status"])
    /\ UNCHANGED << governor, now, killswitch, rate_listeners, poller,
                    monitor >>

\* Where the loop running on thread l is.
LoopPc(l) == IF l = PollerThread THEN poll_pc ELSE poll_pc2

\* Thread.is_alive(): the loop has started and has not returned.
LoopAlive(l) == LoopPc(l) \notin {"none", "exited"}

\* The loop on thread l moves to position pc.
LoopGoto(l, pc) ==
    IF l = PollerThread
        THEN poll_pc' = pc /\ poll_pc2' = poll_pc2
        ELSE poll_pc2' = pc /\ poll_pc' = poll_pc

\* "self._poll_thread and self._poll_thread.is_alive()": the handle is set
\* and the loop it refers to has not returned.
PollAlive == poll_thread # None /\ LoopAlive(Val(poll_thread))

\* The listener list from its last element to its first.
Reversed(listeners) ==
    [i \in 1..Len(listeners) |-> listeners[Len(listeners) + 1 - i]]

\* Mutant of Notify: the pass goes through the listeners from the one
\* registered last to the one registered first.
NotifyNewestFirst(t) ==
    /\ At(t, "notify")
    /\ poll_reset_event' =
           IF poll_thread # None /\ PollAlive THEN TRUE ELSE poll_reset_event
    /\ Goto(t, [th[t] EXCEPT !.listeners = Reversed(rate_listeners),
                             !.registry = rate_listeners,
                             !.pc = IF rate_listeners = <<>>
                                        THEN "status" ELSE "notify_snapshot"])
    /\ UNCHANGED << governor, now, killswitch, rate_listeners, poll_thread,
                    poll_pc, poll_pc2, poll_stop_event, monitor >>

\* _request: "if updated: self._reset_poll_timer()", and the head of
\* _notify_rate_limit_listeners: the copy of the listener list.
Notify(t) ==
    /\ At(t, "notify")
    /\ poll_reset_event' =
           IF poll_thread # None /\ PollAlive THEN TRUE ELSE poll_reset_event
    /\ Goto(t, [th[t] EXCEPT !.listeners = rate_listeners,
                             !.registry = rate_listeners,
                             !.pc = IF rate_listeners = <<>>
                                        THEN "status" ELSE "notify_snapshot"])
    /\ UNCHANGED << governor, now, killswitch, rate_listeners, poll_thread,
                    poll_pc, poll_pc2, poll_stop_event, monitor >>

\* Mutant of NotifySnapshot: the listeners get the state the request found
\* when it started.
NotifySnapshotOfEntry(t) ==
    /\ At(t, "notify_snapshot")
    /\ keeper_lock = None
    /\ buckets' = SetDefault(buckets, th[t].bucket)
    /\ Goto(t, [th[t] EXCEPT !.snapshot = th[t].entry,
                             !.pc = "notify_call"])
    /\ UNCHANGED << cfg, enable_ratekeeping, keeper_lock, now, killswitch,
                    rate_listeners, poller, monitor >>

\* _notify_rate_limit_listeners: "snapshot = self.rate_limit_snapshot(bucket)"
NotifySnapshot(t) ==
    /\ At(t, "notify_snapshot")
    /\ keeper_lock = None
    /\ buckets' = SetDefault(buckets, th[t].bucket)
    /\ Goto(t, [th[t] EXCEPT !.snapshot = Snapshot(buckets, th[t].bucket),
                             !.pc = "notify_call"])
    /\ UNCHANGED << cfg, enable_ratekeeping, keeper_lock, now, killswitch,
                    rate_listeners, poller, monitor >>

\* Mutant of NotifyCall: a listener that raises ends the pass.
NotifyCallStopsOnRaise(t, raised) ==
    /\ At(t, "notify_call")
    /\ Goto(t, [th[t] EXCEPT
                  !.notified = Append(@, [ listener |-> Head(th[t].listeners),
                                           bucket |-> th[t].bucket,
                                           snapshot |-> th[t].snapshot,
                                           raised |-> raised ]),
                  !.listeners = Tail(@),
                  !.pc = IF Len(th[t].listeners) = 1 \/ raised
                             THEN "status" ELSE "notify_call"])
    /\ UNCHANGED << governor, now, killswitch, rate_listeners, poller,
                    monitor >>

\* _notify_rate_limit_listeners: one turn of "for listener in listeners":
\* the listener returns or raises, and an exception is logged and dropped.
NotifyCall(t, raised) ==
    /\ At(t, "notify_call")
    /\ Goto(t, [th[t] EXCEPT
                  !.notified = Append(@, [ listener |-> Head(th[t].listeners),
                                           bucket |-> th[t].bucket,
                                           snapshot |-> th[t].snapshot,
                                           raised |-> raised ]),
                  !.listeners = Tail(@),
                  !.pc = IF Len(th[t].listeners) = 1
                             THEN "status" ELSE "notify_call"])
    /\ UNCHANGED << governor, now, killswitch, rate_listeners, poller,
                    monitor >>

\* _request: "if raise_for_status: response.raise_for_status()", then the
\* return of the response.
Status(t) ==
    /\ At(t, "status")
    /\ Goto(t, [th[t] EXCEPT
                  !.pc = "done",
                  !.result = IF th[t].raise_for_status
                                /\ Val(th[t].response).status_code >= 400
                                 THEN Failure("HTTPError") ELSE Ok])
    /\ UNCHANGED << governor, now, killswitch, rate_listeners, poller,
                    monitor >>

\* The caller has its result or its error and goes on.
Return(t) ==
    /\ At(t, "done")
    /\ Goto(t, IdleThread)
    /\ UNCHANGED << governor, now, killswitch, rate_listeners, poller,
                    monitor >>

\* ------------------------------------------------------------ the client API

\* set_killswitch(until_epoch=..., reason=...)
SetKillswitch(t, until, reason) ==
    /\ At(t, "idle")
    /\ killswitch_until' = until
    /\ killswitch_reason' = reason
    /\ killswitch_scheduled' = None
    /\ UNCHANGED << governor, now, rate_listeners, poller, th, monitor >>

\* schedule_killswitch(after_seconds=..., reason=...) is called.
CallScheduleKillswitch(t, after_seconds, reason) ==
    /\ At(t, "idle")
    /\ Goto(t, [IdleThread EXCEPT !.pc = "schedule",
                                  !.call = "schedule_killswitch",
                                  !.after_seconds = after_seconds,
                                  !.reason = reason])
    /\ UNCHANGED << governor, now, killswitch, rate_listeners, poller,
                    monitor >>

\* Mutant of ScheduleTarget: a negative delay is not raised to zero.
ScheduleTargetUnclamped(nw, after_seconds) == nw + after_seconds

\* schedule_killswitch: "target = time.time() + max(after_seconds, 0)"
ScheduleTarget(nw, after_seconds) == nw + Max(after_seconds, 0)

\* schedule_killswitch: the clock is read and set_killswitch is called.
ScheduleKillswitch(t) ==
    /\ At(t, "schedule")
    /\ killswitch_until' = Some(ScheduleTarget(now, th[t].after_seconds))
    /\ killswitch_reason' = th[t].reason
    /\ killswitch_scheduled' =
           Some([at |-> now, after_seconds |-> th[t].after_seconds])
    /\ Goto(t, [th[t] EXCEPT !.pc = "done", !.result = Ok])
    /\ UNCHANGED << governor, now, rate_listeners, poller, monitor >>

\* clear_killswitch()
ClearKillswitch(t) ==
    /\ At(t, "idle")
    /\ killswitch_until' = None
    /\ killswitch_reason' = None
    /\ killswitch_scheduled' = None
    /\ UNCHANGED << governor, now, rate_listeners, poller, th, monitor >>

InSeq(x, s) == \E i \in 1..Len(s) : s[i] = x

\* list.remove(x): the first occurrence goes.
RemoveFirst(s, x) ==
    LET i == CHOOSE j \in 1..Len(s) :
                 s[j] = x /\ \A k \in 1..(j - 1) : s[k] # x
    IN  SubSeq(s, 1, i - 1) \o SubSeq(s, i + 1, Len(s))

\* Mutant of Added: the listener is appended without looking for it.
AddedAgain(listeners, l) == Append(listeners, l)

\* add_rate_limit_listener: "if listener not in ...: append(listener)"
Added(listeners, l) ==
    IF InSeq(l, listeners) THEN listeners ELSE Append(listeners, l)

\* remove_rate_limit_listener: "if listener in ...: remove(listener)"
Removed(listeners, l) ==
    IF InSeq(l, listeners) THEN RemoveFirst(listeners, l) ELSE listeners

\* add_rate_limit_listener(listener)
AddListener(t, l) ==
    /\ At(t, "idle")
    /\ rate_listeners' = Added(rate_listeners, l)
    /\ UNCHANGED << governor, now, killswitch, poller, th, monitor >>

\* remove_rate_limit_listener(listener)
RemoveListener(t, l) ==
    /\ At(t, "idle")
    /\ rate_listeners' = Removed(rate_listeners, l)
    /\ UNCHANGED << governor, now, killswitch, poller, th, monitor >>

\* add_rate_limit_listener(listener) is called.
CallAddListener(t, l) ==
    /\ At(t, "idle")
    /\ Goto(t, [IdleThread EXCEPT !.pc = "add_listener",
                                  !.call = "add_rate_limit_listener",
                                  !.listener = Some(l),
                                  !.registry = rate_listeners])
    /\ UNCHANGED << governor, now, killswitch, rate_listeners, poller,
                    monitor >>

\* add_rate_limit_listener: the body, under _listener_lock.
AddListenerLocked(t) ==
    /\ At(t, "add_listener")
    /\ rate_listeners' = Added(rate_listeners, Val(th[t].listener))
    /\ Goto(t, [th[t] EXCEPT !.pc = "done", !.result = Ok])
    /\ UNCHANGED << governor, now, killswitch, poller, monitor >>

\* remove_rate_limit_listener(listener) is called.
CallRemoveListener(t, l) ==
    /\ At(t, "idle")
    /\ Goto(t, [IdleThread EXCEPT !.pc = "remove_listener",
                                  !.call = "remove_rate_limit_listener",
                                  !.listener = Some(l),
                                  !.registry = rate_listeners])
    /\ UNCHANGED << governor, now, killswitch, rate_listeners, poller,
                    monitor >>

\* remove_rate_limit_listener: the body, under _listener_lock.
RemoveListenerLocked(t) ==
    /\ At(t, "remove_listener")
    /\ rate_listeners' = Removed(rate_listeners, Val(th[t].listener))
    /\ Goto(t, [th[t] EXCEPT !.pc = "done", !.result = Ok])
    /\ UNCHANGED << governor, now, killswitch, poller, monitor >>

\* Mutant of PassHoldsLock: the snapshot and the loop over the listeners are
\* inside the "with self._listener_lock" block.
PassHoldsLockInLoop(t) == th[t].pc \in {"notify_snapshot", "notify_call"}

\* _notify_rate_limit_listeners: the "with self._listener_lock" block holds
\* the copy of the list and nothing else; it has ended before the snapshot
\* is taken and the listeners are called.
PassHoldsLock(t) == FALSE

\* _listener_lock (a threading.Lock, not reentrant) is free: the copy and
\* the bodies of add_/remove_rate_limit_listener are single steps, so only
\* a pass could hold it from one step to the next.
ListenerLockFree == \A u \in DOMAIN th : ~PassHoldsLock(u)

\* add_rate_limit_listener: the body, once _listener_lock is acquired.
LockedAdd(t) == ListenerLockFree /\ AddListenerLocked(t)

\* remove_rate_limit_listener: the body, once _listener_lock is acquired.
LockedRemove(t) == ListenerLockFree /\ RemoveListenerLocked(t)

\* _notify_rate_limit_listeners: the copy of the list, once _listener_lock
\* is acquired.
LockedNotify(t) == ListenerLockFree /\ Notify(t)

\* Mutant of RestOfPass: the loop runs over the registry itself, so what is
\* left after "called" calls is the registry from position called + 1 on.
RestOfPassLive(rest, called, registry) ==
    SubSeq(registry, called + 1, Len(registry))

\* _notify_rate_limit_listeners: "for listener in listeners" runs over the
\* copy made under the lock, whatever the registry has become.
RestOfPass(rest, called, registry) == Tail(rest)

\* _notify_rate_limit_listeners: one turn of "for listener in listeners"
\* in which the listener's body calls add_rate_limit_listener(l) (add) or
\* remove_rate_limit_listener(l) on the client and returns.
ListenerCall(t, l, add) ==
    /\ At(t, "notify_call")
    /\ ListenerLockFree
    /\ rate_listeners' = IF add THEN Added(rate_listeners, l)
                                ELSE Removed(rate_listeners, l)
    /\ Goto(t, [th[t] EXCEPT
                  !.notified = Append(@, [ listener |-> Head(th[t].listeners),
                                           bucket |-> th[t].bucket,
                                           snapshot |-> th[t].snapshot,
                                           raised |-> FALSE ]),
                  !.listeners = RestOfPass(@, Len(th[t].notified) + 1,
                                           rate_listeners'),
                  !.pc = IF RestOfPass(th[t].listeners,
                                       Len(th[t].notified) + 1,
                                       rate_listeners') = <<>>
                             THEN "status" ELSE "notify_call"])
    /\ UNCHANGED << governor, now, killswitch, poller, monitor >>

\* threading.Thread(target=self._poll_loop, ...): the thread the new loop
\* runs on.
NewLoop == IF LoopAlive(PollerThread) THEN "poller2" ELSE PollerThread

\* Mutant of StartPolling: a new loop is started whether or not the handle
\* refers to a live one.
StartPollingAnew(t) ==
    /\ At(t, "idle")
    /\ ~LoopAlive(NewLoop)
    /\ poll_stop_event' = FALSE
    /\ poll_reset_event' = FALSE
    /\ poll_thread' = Some(NewLoop)
    /\ LoopGoto(NewLoop, "wait")
    /\ UNCHANGED << governor, now, killswitch, rate_listeners, th, monitor >>

\* start_rate_limit_polling(): re-signal the loop of a live handle, else
\* clear both signals and start a new loop, which finds the stop signal
\* cleared and waits.
StartPolling(t) ==
    /\ At(t, "idle")
    /\ IF poll_thread # None /\ PollAlive
           THEN /\ poll_reset_event' = TRUE
                /\ UNCHANGED << poll_thread, poll_pc, poll_pc2,
                                poll_stop_event >>
           ELSE /\ ~LoopAlive(NewLoop)
                /\ poll_stop_event' = FALSE
                /\ poll_reset_event' = FALSE
                /\ poll_thread' = Some(NewLoop)
                /\ LoopGoto(NewLoop, "wait")
    /\ UNCHANGED << governor, now, killswitch, rate_listeners, th, monitor >>

\* stop_rate_limit_polling(), up to the join.
StopPolling(t) ==
    /\ At(t, "idle")
    /\ IF poll_thread = None
           THEN UNCHANGED << poller, th >>
           ELSE /\ poll_stop_event' = TRUE
                /\ poll_reset_event' = TRUE
                /\ Goto(t, [th[t] EXCEPT !.pc = "stop_join"])
                /\ UNCHANGED << poll_thread, poll_pc, poll_pc2 >>
    /\ UNCHANGED << governor, now, killswitch, rate_listeners, monitor >>

\* stop_rate_limit_polling(): the join returns because the loop has
\* returned, and the handle is cleared.
StopJoin(t) ==
    /\ At(t, "stop_join")
    /\ ~PollAlive
    /\ poll_thread' = None
    /\ Goto(t, [th[t] EXCEPT !.pc = "idle"])
    /\ UNCHANGED << governor, now, killswitch, rate_listeners, poll_pc,
                    poll_pc2, poll_stop_event, poll_reset_event, monitor >>

\* stop_rate_limit_polling(): "join(timeout=1.0)" returns after its second
\* with the loop still inside a refresh call (a transport call or a sleep
\* of the governor), and the handle is cleared all the same.
StopJoinTimeout(t) ==
    /\ At(t, "stop_join")
    /\ PollAlive
    /\ LoopPc(Val(poll_thread)) = "poll"
    /\ poll_thread' = None
    /\ Goto(t, [th[t] EXCEPT !.pc = "idle"])
    /\ UNCHANGED << governor, now, killswitch, rate_listeners, poll_pc,
                    poll_pc2, poll_stop_event, poll_reset_event, monitor >>

\* ------------------------------------------------------------ the poller loop

\* _poll_loop: the wait ends on the reset signal: clear it, skip the poll
\* and test the stop signal before waiting again.
PollSignalled ==
    /\ poll_pc = "wait"
    /\ poll_reset_event
    /\ poll_reset_event' = FALSE
    /\ poll_pc' = IF poll_stop_event THEN "exited" ELSE "wait"
    /\ UNCHANGED << governor, now, killswitch, rate_listeners, poll_thread,
                    poll_pc2, poll_stop_event, th, monitor >>

\* _poll_loop: "triggered = self._poll_reset_event.wait(timeout=...)" returns
\* True: the reset signal is set.
LoopWaitSignalled(l) ==
    /\ LoopPc(l) = "wait"
    /\ poll_reset_event
    /\ LoopGoto(l, "woken_signal")
    /\ UNCHANGED << governor, now, killswitch, rate_listeners, poll_thread,
                    poll_stop_event, poll_reset_event, th, monitor >>

\* _poll_loop: the wait returns False: the interval has elapsed without the
\* reset signal.
LoopWaitTimedOut(l) ==
    /\ LoopPc(l) = "wait"
    /\ ~poll_reset_event
    /\ LoopGoto(l, "woken_timeout")
    /\ UNCHANGED << governor, now, killswitch, rate_listeners, poll_thread,
                    poll_stop_event, poll_reset_event, th, monitor >>

\* _poll_loop: "while not self._poll_stop_event.is_set()"
PollLoopTest == IF poll_stop_event THEN "exited" ELSE "wait"

\* Mutant of PollAfterWake: the loop never polls, whatever woke it.
PollAfterWakeNever(triggered) == PollLoopTest

\* Mutant of PollAfterWake: the loop polls after every wake.
PollAfterWakeAlways(triggered) == "poll"

\* _poll_loop: "if triggered: continue", else the refresh call.
PollAfterWake(triggered) == IF triggered THEN PollLoopTest ELSE "poll"

\* _poll_loop: "self._poll_reset_event.clear()", then either "continue" or
\* the call of get_json("/rate_limit", bucket=self._poll_bucket), which
\* enters _request on the loop's thread with raise_for_status=True.
LoopClear(l) ==
    /\ LoopPc(l) \in {"woken_signal", "woken_timeout"}
    /\ poll_reset_event' = FALSE
    /\ LoopGoto(l, PollAfterWake(LoopPc(l) = "woken_signal"))
    /\ th' = IF PollAfterWake(LoopPc(l) = "woken_signal") = "poll"
                 THEN [th EXCEPT ![l] =
                          [IdleThread EXCEPT
                             !.pc = "gate", !.bucket = "core",
                             !.raise_for_status = TRUE,
                             !.entry = Snapshot(buckets, "core")]]
             ELSE th
    /\ UNCHANGED << governor, now, killswitch, rate_listeners, poll_thread,
                    poll_stop_event, monitor >>

\* get_json: "return response.json()" after a request that returned; the
\* body may fail to parse.
PollOutcome(result, json_ok) ==
    IF result.kind = "ok" /\ ~json_ok THEN Failure("ValueError") ELSE result

\* Mutant of PollResume: a failed refresh call ends the loop.
PollResumeUnlessFailed(outcome) ==
    IF outcome.kind # "ok" THEN "exited" ELSE PollLoopTest

\* _poll_loop: "except Exception: logger.warning(...)", and the loop goes
\* back to its test whatever the outcome.
PollResume(outcome) == PollLoopTest

\* _poll_loop: get_json has returned or raised.  The outcome stays in the
\* loop thread's record for the properties below.
LoopDone(l, json_ok) ==
    /\ LoopPc(l) = "poll"
    /\ th[l].pc = "done"
    /\ LET outcome == PollOutcome(th[l].result, json_ok)
       IN  /\ LoopGoto(l, PollResume(outcome))
           /\ th' = [th EXCEPT ![l] = [IdleThread EXCEPT !.result = outcome]]
    /\ UNCHANGED << governor, now, killswitch, rate_listeners, poll_thread,
                    poll_stop_event, poll_reset_event, monitor >>

\* The steps of the first loop, on the thread "poller".
PollWaitSignalled == LoopWaitSignalled(PollerThread)

PollWaitTimedOut == LoopWaitTimedOut(PollerThread)

PollClear == LoopClear(PollerThread)

PollDone(json_ok) == LoopDone(PollerThread, json_ok)

\* ------------------------------------------------------------ JSON values

\* What json.loads yields, by type: None, int, float, str, bool, list and
\* dict.  A float is kept as its integer part and whether it is finite
\* (1e999 reads as inf); a str is a sequence of characters; a dict is a
\* function from its keys.
JNull == [t |-> "null"]

JInt(n) == [t |-> "int", v |-> n]

JFloat(trunc, finite) == [t |-> "float", v |-> trunc, finite |-> finite]

JStr(chars) == [t |-> "str", s |-> chars]

JBool(b) == [t |-> "bool", b |-> b]

JArray(items) == [t |-> "list", items |-> items]

\* An empty list.
JList == JArray(<<>>)

JObj(members) == [t |-> "dict", m |-> members]

\* isinstance(value, Mapping)
IsMapping(value) == value.t = "dict"

\* dict.get(key): None when the key is missing.
JGet(obj, key) == IF key \in DOMAIN obj.m THEN obj.m[key] ELSE JNull

\* dict.get(key, {}) 
JGetOrEmpty(obj, key) ==
    IF key \in DOMAIN obj.m THEN obj.m[key] ELSE JObj(<<>>)

\* Python's truth value of a decoded JSON value ("if not bucket").
Truthy(value) ==
    CASE value.t = "null" -> FALSE
      [] value.t = "int" -> value.v # 0
      [] value.t = "float" -> ~value.finite \/ value.v # 0
      [] value.t = "str" -> value.s # <<>>
      [] value.t = "bool" -> value.b
      [] value.t = "list" -> value.items # <<>>
      [] value.t = "dict" -> DOMAIN value.m # {}

\* _coerce_int / _safe_int: "return int(value)" raises OverflowError for a
\* float that is not finite.
CoerceRaises(value) == value.t = "float" /\ ~value.finite

\* _coerce_int / _safe_int, when it returns: None stays None, an int or a
\* float (a bool is an int) is cut to its integer part, a str is stripped
\* and parsed by int(), anything else is None.
CoerceInt(value) ==
    CASE value.t = "int" -> Some(value.v)
      [] value.t = "float" -> Some(value.v)
      [] value.t = "bool" -> Some(IF value.b THEN 1 ELSE 0)
      [] value.t = "str" -> PyInt(value.s)
      [] OTHER -> None

\* ------------------------------------------------------------- JSON text

\* A text is a sequence of one-character strings.  The names the bridge
\* looks up in a decoded object:
BucketKey == << "b", "u", "c", "k", "e", "t" >>

LimitKey == << "l", "i", "m", "i", "t" >>

RemainingKey == << "r", "e", "m", "a", "i", "n", "i", "n", "g" >>

ResetTsKey == << "r", "e", "s", "e", "t", "_", "t", "s" >>

DigitOf(d) ==
    CASE d = 0 -> "0" [] d = 1 -> "1" [] d = 2 -> "2" [] d = 3 -> "3"
      [] d = 4 -> "4" [] d = 5 -> "5" [] d = 6 -> "6" [] d = 7 -> "7"
      [] d = 8 -> "8" [] d = 9 -> "9"

RECURSIVE NatText(_)
NatText(n) ==
    IF n < 10 THEN << DigitOf(n) >>
    ELSE NatText(n \div 10) \o << DigitOf(n % 10) >>

\* str(n) of an int, which is also how json.dumps writes it.
IntText(n) == IF n < 0 THEN << "-" >> \o NatText(-n) ELSE NatText(n)

\* json.dumps of a str: quoted, with the quote, the backslash and the
\* control characters escaped.
RECURSIVE EscapeText(_)
EscapeText(chars) ==
    IF chars = <<>> THEN <<>>
    ELSE LET c == Head(chars)
             e == CASE c = "\"" -> << "\\", "\"" >>
                    [] c = "\\" -> << "\\", "\\" >>
                    [] c = "\n" -> << "\\", "n" >>
                    [] c = "\t" -> << "\\", "t" >>
                    [] OTHER -> << c >>
         IN  e \o EscapeText(Tail(chars))

\* A writer that quotes a str as it is.
DumpsStrUnescaped(chars) == << "\"" >> \o chars \o << "\"" >>

DumpsStr(chars) == << "\"" >> \o EscapeText(chars) \o << "\"" >>

\* json.dumps of an Optional[int]: null for None.
DumpsOptInt(value) ==
    IF value = None THEN << "n", "u", "l", "l" >> ELSE IntText(Val(value))

\* json.dumps(update.__dict__): the four fields in the order the dataclass
\* declares them, separated by ", " and ": ".
DumpsUpdate(update) ==
    << "{" >> \o DumpsStr(BucketKey) \o << ":", " " >>
        \o DumpsStr(update.bucket) \o << ",", " " >>
        \o DumpsStr(LimitKey) \o << ":", " " >>
        \o DumpsOptInt(update.limit) \o << ",", " " >>
        \o DumpsStr(RemainingKey) \o << ":", " " >>
        \o DumpsOptInt(update.remaining) \o << ",", " " >>
        \o DumpsStr(ResetTsKey) \o << ":", " " >>
        \o DumpsOptInt(update.reset_ts) \o << "}" >>

\* What a step of the decoder yields: whether it matched, the value read and
\* the text after it.
Parsed(value, rest) == [ok |-> TRUE, v |-> value, rest |-> rest]

ParseError == [ok |-> FALSE, v |-> JNull, rest |-> <<>>]

WhitespaceChars == {" ", "\t", "\n", "\r"}

RECURSIVE SkipWs(_)
SkipWs(s) ==
    IF s # <<>> /\ Head(s) \in WhitespaceChars THEN SkipWs(Tail(s)) ELSE s

StartsWith(s, word) ==
    Len(s) >= Len(word) /\ SubSeq(s, 1, Len(word)) = word

Drop(s, n) == SubSeq(s, n + 1, Len(s))

\* The number of leading digits of s.
RECURSIVE DigitRun(_)
DigitRun(s) ==
    IF s # <<>> /\ Head(s) \in DigitChars THEN 1 + DigitRun(Tail(s)) ELSE 0

RECURSIVE Pow10(_)
Pow10(n) == IF n = 0 THEN 1 ELSE 10 * Pow10(n - 1)

RECURSIVE StripZeros(_)
StripZeros(s) ==
    IF s # <<>> /\ Head(s) = "0" THEN StripZeros(Tail(s)) ELSE s

\* The digits before the point of the largest finite double: a literal of more
\* digits than this before the point reads as inf.
MaxFloatDigits == 309

\* float(literal) for the digits before the point, the digits after it and
\* the exponent, as JFloat keeps it: the integer part (towards zero) and
\* whether the value is finite.  Exact for literals of at most 15
\* significant digits whose integer part fits the model's integers.
FloatOf(negative, whole, frac, exponent) ==
    LET digits == StripZeros(whole \o frac)
        scale == exponent - Len(frac)
        magnitude == Len(digits) + scale
        n == DigitsValue(digits, 0)
        trunc == IF digits = <<>> \/ magnitude <= 0 THEN 0
                 ELSE IF scale >= 0 THEN n * Pow10(scale)
                 ELSE n \div Pow10(-scale)
    IN  IF digits # <<>> /\ magnitude > MaxFloatDigits
        THEN JFloat(0, FALSE)
        ELSE JFloat(IF negative THEN -trunc ELSE trunc, TRUE)

\* json's NUMBER_RE, the exponent: ([eE][-+]?\d+)?; the number is an int
\* when there is neither fraction nor exponent, else a float.
NumberExponent(negative, whole, frac, s) ==
    LET marked == s # <<>> /\ Head(s) \in {"e", "E"}
        signed == marked /\ Len(s) > 1 /\ s[2] \in {"+", "-"}
        digits == IF signed THEN Drop(s, 2) ELSE Drop(s, 1)
        elen == IF marked THEN DigitRun(digits) ELSE 0
        evalue == DigitsValue(SubSeq(digits, 1, elen), 0)
        exponent == IF signed /\ s[2] = "-" THEN -evalue ELSE evalue
    IN  IF frac = <<>> /\ elen = 0
        THEN Parsed(JInt(IF negative THEN -DigitsValue(whole, 0)
                                     ELSE DigitsValue(whole, 0)), s)
        ELSE IF elen = 0 THEN Parsed(FloatOf(negative, whole, frac, 0), s)
        ELSE Parsed(FloatOf(negative, whole, frac, exponent),
                    Drop(digits, elen))

\* json's NUMBER_RE, the fraction: (\.\d+)?
NumberFraction(negative, whole, s) ==
    LET flen == IF s # <<>> /\ Head(s) = "." THEN DigitRun(Tail(s)) ELSE 0
    IN  NumberExponent(negative, whole, SubSeq(s, 2, flen + 1),
                       IF flen > 0 THEN Drop(s, flen + 1) ELSE s)

\* json's NUMBER_RE, the whole part: (0|[1-9]\d*)
NumberWhole(negative, s) ==
    LET wlen == IF s # <<>> /\ Head(s) = "0" THEN 1 ELSE DigitRun(s)
    IN  IF wlen = 0 THEN ParseError
        ELSE NumberFraction(negative, SubSeq(s, 1, wlen), Drop(s, wlen))

\* json's NUMBER_RE: -?(0|[1-9]\d*)(\.\d+)?([eE][-+]?\d+)?
ParseNumber(s) ==
    IF s # <<>> /\ Head(s) = "-" THEN NumberWhole(TRUE, Tail(s))
    ELSE NumberWhole(FALSE, s)

\* json's scanstring after the opening quote: up to the closing quote, with
\* the escapes decoded; a raw control character or an unknown escape is an
\* error.  (\b, \f, \r and \uXXXX are escapes no text here is written with.)
RECURSIVE ParseChars(_, _)
ParseChars(s, acc) ==
    IF s = <<>> THEN ParseError
    ELSE IF Head(s) = "\"" THEN Parsed(JStr(acc), Tail(s))
    ELSE IF Head(s) \in {"\n", "\t", "\r"} THEN ParseError
    ELSE IF Head(s) # "\\" THEN ParseChars(Tail(s), Append(acc, Head(s)))
    ELSE IF Len(s) < 2 THEN ParseError
    ELSE LET e == s[2]
         IN  CASE e \in {"\"", "\\", "/"} ->
                      ParseChars(Drop(s, 2), Append(acc, e))
               [] e = "n" -> ParseChars(Drop(s, 2), Append(acc, "\n"))
               [] e = "t" -> ParseChars(Drop(s, 2), Append(acc, "\t"))
               [] OTHER -> ParseError

InfinityText == << "I", "n", "f", "i", "n", "i", "t", "y" >>

RECURSIVE ParseValue(_)
RECURSIVE ParseItems(_, _)
RECURSIVE ParseMembers(_, _)

\* json's JSONArray after a value and blanks: "]" ends the array, "," is
\* followed by the next value.
ItemsNext(items, after) ==
    IF after = <<>> THEN ParseError
    ELSE IF Head(after) = "]" THEN Parsed(JArray(items), Tail(after))
    ELSE IF Head(after) = "," THEN ParseItems(SkipWs(Tail(after)), items)
    ELSE ParseError

ItemsAfter(item, items) ==
    IF ~item.ok THEN ParseError
    ELSE ItemsNext(Append(items, item.v), SkipWs(item.rest))

\* json's JSONArray after "[" and blanks: values separated by commas.
ParseItems(s, items) == ItemsAfter(ParseValue(s), items)

\* json's JSONObject after a value and blanks: "}" ends the object, "," is
\* followed by the next pair.
MembersNext(members, after) ==
    IF after = <<>> THEN ParseError
    ELSE IF Head(after) = "}" THEN Parsed(JObj(members), Tail(after))
    ELSE IF Head(after) = "," THEN ParseMembers(SkipWs(Tail(after)), members)
    ELSE ParseError

\* A key given twice keeps its last value.
MembersValue(key, value, members) ==
    IF ~value.ok THEN ParseError
    ELSE MembersNext((key :> value.v) @@ members, SkipWs(value.rest))

MembersColon(key, colon, members) ==
    IF colon = <<>> \/ Head(colon) # ":" THEN ParseError
    ELSE MembersValue(key, ParseValue(SkipWs(Tail(colon))), members)

MembersKey(key, members) ==
    IF ~key.ok THEN ParseError
    ELSE MembersColon(key.v.s, SkipWs(key.rest), members)

\* json's JSONObject after "{" and blanks: "key": value pairs separated by
\* commas.
ParseMembers(s, members) ==
    IF s = <<>> \/ Head(s) # "\"" THEN ParseError
    ELSE MembersKey(ParseChars(Tail(s), <<>>), members)

ObjectBody(body) ==
    IF body # <<>> /\ Head(body) = "}" THEN Parsed(JObj(<<>>), Tail(body))
    ELSE ParseMembers(body, <<>>)

ArrayBody(body) ==
    IF body # <<>> /\ Head(body) = "]" THEN Parsed(JArray(<<>>), Tail(body))
    ELSE ParseItems(body, <<>>)

\* json's scanner at a value: a string, an object, an array, a literal
\* (NaN, Infinity and -Infinity among them) or a number.
ParseValue(s) ==
    IF s = <<>> THEN ParseError
    ELSE IF Head(s) = "\"" THEN ParseChars(Tail(s), <<>>)
    ELSE IF Head(s) = "{" THEN ObjectBody(SkipWs(Tail(s)))
    ELSE IF Head(s) = "[" THEN ArrayBody(SkipWs(Tail(s)))
    ELSE IF StartsWith(s, << "n", "u", "l", "l" >>)
        THEN Parsed(JNull, Drop(s, 4))
    ELSE IF StartsWith(s, << "t", "r", "u", "e" >>)
        THEN Parsed(JBool(TRUE), Drop(s, 4))
    ELSE IF StartsWith(s, << "f", "a", "l", "s", "e" >>)
        THEN Parsed(JBool(FALSE), Drop(s, 5))
    ELSE IF StartsWith(s, << "N", "a", "N" >>)
        THEN Parsed(JFloat(0, FALSE), Drop(s, 3))
    ELSE IF StartsWith(s, InfinityText)
        THEN Parsed(JFloat(0, FALSE), Drop(s, 8))
    ELSE IF StartsWith(s, << "-" >> \o InfinityText)
        THEN Parsed(JFloat(0, FALSE), Drop(s, 9))
    ELSE ParseNumber(s)

LoadsEnd(value) ==
    IF value.ok /\ SkipWs(value.rest) = <<>> THEN value ELSE ParseError

\* json.loads(text): blanks, one value, blanks and the end of the text;
\* anything else raises JSONDecodeError.
Loads(text) == LoadsEnd(ParseValue(SkipWs(text)))

\* str(bucket) for the values a bucket is sent as: a str is itself, an int
\* its decimal text, a bool "True" or "False".
PyStr(value) ==
    CASE value.t = "str" -> value.s
      [] value.t = "int" -> IntText(value.v)
      [] value.t = "bool" -> IF value.b THEN << "T", "r", "u", "e" >>
                             ELSE << "F", "a", "l", "s", "e" >>

\* ------------------------------------------------------------ the dashboard

\* The buckets the dashboard hears about.
DashBuckets == {"core", "search"}

\* RateLimitTextualApp(fetch_interval=...): max(fetch_interval, 1.0).
FetchInterval == 2

\* RateLimitResource(bucket, limit, remaining, reset_ts)
RateLimitResource(bucket, limit, remaining, reset_ts) ==
    [ bucket |-> bucket, limit |-> limit, remaining |-> remaining,
      reset_ts |-> reset_ts ]

\* _resource_from_snapshot(bucket, state)
ResourceFromSnapshot(bucket, state) ==
    RateLimitResource(bucket, state.limit, state.remaining, state.reset_ts)

\* self._resources[bucket] = resource
Put(map, key, value) ==
    [k \in DOMAIN map \cup {key} |-> IF k = key THEN value ELSE map[k]]

\* What was applied last for each bucket an update names, and when the last
\* update was applied.
Record(source, news) ==
    [ last |-> [b \in DOMAIN applied.last \cup DOMAIN news |->
                   IF b \in DOMAIN news
                       THEN [source |-> source, resource |-> news[b]]
                       ELSE applied.last[b]],
      at |-> Some(now) ]

\* _snapshot_listener -> _apply_snapshot: an update from the client's
\* listener fan-out, applied on the dashboard's event loop.
ApplySnapshot(bucket, state) ==
    /\ resources' = Put(resources, bucket, ResourceFromSnapshot(bucket, state))
    /\ meta' = [meta EXCEPT !.last_update_ts = Some(now),
                            !.last_update_source = Some("live")]
    /\ applied' = Record("client",
                         bucket :> ResourceFromSnapshot(bucket, state))
    /\ UNCHANGED << governor, now, killswitch, rate_listeners, poller, th,
                    fetch, conn >>

\* _handle_socket_update(update): an update from the bridge.
SocketUpdate(update) ==
    LET resource == RateLimitResource(update.bucket, update.limit,
                                      update.remaining, update.reset_ts)
    IN  [ resources |-> Put(resources, update.bucket, resource),
          meta |-> [meta EXCEPT !.last_update_ts = Some(now),
                                !.last_update_source = Some("bridge")],
          applied |-> Record("bridge", update.bucket :> resource) ]

\* The bridge's reader hands an update to _handle_socket_update.
HandleSocketUpdate(update) ==
    /\ resources' = SocketUpdate(update).resources
    /\ meta' = SocketUpdate(update).meta
    /\ applied' = SocketUpdate(update).applied
    /\ UNCHANGED << governor, now, killswitch, rate_listeners, poller, th,
                    fetch, conn >>

\* Python's truth value of last_update_ts: set and not zero.
TruthyTs(ts) == IsSet(ts) /\ Val(ts) # 0

\* _fetch_rate_limit: "not force and last_update_ts and
\* now - last_update_ts < self._fetch_interval"
Throttled(force, last_update_ts, nw) ==
    /\ ~force
    /\ TruthyTs(last_update_ts)
    /\ nw - Val(last_update_ts) < FetchInterval

\* _fetch_cycle(force) -> _fetch_rate_limit(force=force), up to the request:
\* the clock is read, and the call returns at once when it is throttled.
\* _fetch_lock lets one cycle run at a time.
FetchRateLimit(force, caller) ==
    /\ fetch.pc = "idle"
    /\ fetch' = IF Throttled(force, meta.last_update_ts, now)
                    THEN [FetchIdle EXCEPT !.force = force, !.now = now,
                                           !.caller = caller,
                                           !.outcome = "skipped"]
                ELSE [FetchIdle EXCEPT !.pc = "request", !.force = force,
                                       !.now = now, !.caller = caller]
    /\ UNCHANGED << governor, now, killswitch, rate_listeners, poller, th,
                    resources, meta, conn, applied >>

\* on_mount: "await self._fetch_cycle(force=True)"
Mount == FetchRateLimit(TRUE, "on_mount")

\* The app's _poll_loop: "await self._fetch_cycle(force=True)" every
\* fetch_interval seconds.
PeriodicPull == FetchRateLimit(TRUE, "_poll_loop")

\* action_refresh_now: the user asks for a pull.
RefreshNow == FetchRateLimit(TRUE, "action_refresh_now")

\* _coerce_resources raises when the resources are no mapping, when an
\* entry is no mapping, or when _safe_int raises.
CoerceResourcesRaises(resources_obj) ==
    \/ ~IsMapping(resources_obj)
    \/ \E b \in DOMAIN resources_obj.m :
           \/ ~IsMapping(resources_obj.m[b])
           \/ \E f \in {"limit", "remaining", "reset"} :
                  CoerceRaises(JGet(resources_obj.m[b], f))

\* _coerce_resources(resources): one RateLimitResource per entry.
CoerceResources(resources_obj) ==
    [b \in DOMAIN resources_obj.m |->
        RateLimitResource(b, CoerceInt(JGet(resources_obj.m[b], "limit")),
                          CoerceInt(JGet(resources_obj.m[b], "remaining")),
                          CoerceInt(JGet(resources_obj.m[b], "reset")))]

\* _fetch_rate_limit: "payload.get("resources", {}) if isinstance(payload,
\* Mapping) else {}"
ResourcesOf(payload) ==
    IF IsMapping(payload) THEN JGetOrEmpty(payload, "resources")
    ELSE JObj(<<>>)

\* _fetch_rate_limit, the except branch: the error is kept and counted as
\* an update of the time the call started.
FetchFailed ==
    /\ meta' = [meta EXCEPT !.last_error = Some("error"),
                            !.last_update_ts = Some(fetch.now),
                            !.last_update_source = Some("error")]
    /\ fetch' = [fetch EXCEPT !.pc = "idle", !.outcome = "error"]
    /\ UNCHANGED << resources, applied >>

\* _fetch_rate_limit: get_json has returned the decoded body; then
\* _update_resources(parsed, source="fetch", timestamp=now) replaces the
\* whole map and stamps it with the time the call started.
FetchReturn(payload) ==
    /\ fetch.pc = "request"
    /\ IF CoerceResourcesRaises(ResourcesOf(payload))
           THEN FetchFailed
           ELSE /\ resources' = CoerceResources(ResourcesOf(payload))
                /\ meta' = [meta EXCEPT
                               !.last_update_ts = Some(fetch.now),
                               !.last_update_source = Some("fetch"),
                               !.last_error = None]
                /\ applied' = Record("fetch",
                                     CoerceResources(ResourcesOf(payload)))
                /\ fetch' = [fetch EXCEPT !.pc = "idle",
                                          !.outcome = "applied"]
    /\ UNCHANGED << governor, now, killswitch, rate_listeners, poller, th,
                    conn >>

\* _fetch_rate_limit: get_json has raised (kill-switch, transport error,
\* a body that is no JSON).
FetchRaise ==
    /\ fetch.pc = "request"
    /\ FetchFailed
    /\ UNCHANGED << governor, now, killswitch, rate_listeners, poller, th,
                    conn >>

\* ---------------------------------------------------------------- the bridge

BridgeFrame ==
    UNCHANGED << governor, now, killswitch, rate_listeners, poller, th,
                 fetch >>

\* on_mount: _RateLimitSocketServer.start() listens on the socket path.
StartBridge ==
    /\ ~conn.listening
    /\ conn' = [conn EXCEPT !.listening = TRUE]
    /\ UNCHANGED << resources, meta, applied >>
    /\ BridgeFrame

\* on_unmount: _RateLimitSocketServer.stop() closes the listening socket;
\* a connection already accepted is read to its end.
StopBridge ==
    /\ conn.listening
    /\ conn' = [conn EXCEPT !.listening = FALSE]
    /\ UNCHANGED << resources, meta, applied >>
    /\ BridgeFrame

\* emit_update(update, socket_path=...): False without a socket path or when
\* connect raises OSError; else the update's JSON text and a newline are
\* sent on a connection of their own, which is then closed, and the result
\* is True.
EmitUpdate(update, with_path) ==
    /\ conn.pc = "none"
    /\ conn' = IF with_path /\ conn.listening
               THEN [conn EXCEPT
                        !.pc = "open",
                        !.buffer = DumpsUpdate(update) \o << "\n" >>,
                        !.eof = TRUE, !.written = 1,
                        !.emitted = Some(update), !.returned = Some(TRUE)]
               ELSE [conn EXCEPT !.emitted = Some(update),
                                 !.returned = Some(FALSE)]
    /\ UNCHANGED << resources, meta, applied >>
    /\ BridgeFrame

\* Some other writer connects to the socket.
Connect ==
    /\ conn.listening
    /\ conn.pc = "none"
    /\ conn.emitted = None
    /\ conn' = [conn EXCEPT !.pc = "open"]
    /\ UNCHANGED << resources, meta, applied >>
    /\ BridgeFrame

\* The writer sends one line of text.
Write(text) ==
    /\ conn.pc = "open"
    /\ ~conn.eof
    /\ conn.written < MaxLines
    /\ conn' = [conn EXCEPT !.buffer = conn.buffer \o text \o << "\n" >>,
                            !.written = conn.written + 1]
    /\ UNCHANGED << resources, meta, applied >>
    /\ BridgeFrame

\* The writer closes its end.
Shutdown ==
    /\ conn.pc = "open"
    /\ ~conn.eof
    /\ conn' = [conn EXCEPT !.eof = TRUE]
    /\ UNCHANGED << resources, meta, applied >>
    /\ BridgeFrame

\* The length of what reader.readline() returns: up to and with the first
\* newline, or all there is.
RECURSIVE LineLen(_)
LineLen(s) ==
    IF s = <<>> THEN 0 ELSE IF Head(s) = "\n" THEN 1
    ELSE 1 + LineLen(Tail(s))

HasLine(s) == \E i \in DOMAIN s : s[i] = "\n"

\* _coerce_int applied to the three fields raises.
FieldRaises(payload) ==
    \E key \in {LimitKey, RemainingKey, ResetTsKey} :
        CoerceRaises(JGet(payload, key))

\* The update _handle_client makes of a decoded object.
UpdateOf(payload) ==
    [bucket |-> PyStr(JGet(payload, BucketKey)),
     limit |-> CoerceInt(JGet(payload, LimitKey)),
     remaining |-> CoerceInt(JGet(payload, RemainingKey)),
     reset_ts |-> CoerceInt(JGet(payload, ResetTsKey))]

\* The body of _handle_client's inner try after json.loads: the update
\* handed to the handler, or None when the line is passed over: json.loads
\* raised, the payload has no get (it is no object), the bucket is missing
\* or falsy, or _coerce_int raises.
DecodePayload(payload) ==
    IF ~payload.ok THEN None
    ELSE IF ~IsMapping(payload.v) THEN None
    ELSE IF ~Truthy(JGet(payload.v, BucketKey)) THEN None
    ELSE IF FieldRaises(payload.v) THEN None
    ELSE Some(UpdateOf(payload.v))

DecodeLine(line) == DecodePayload(Loads(line))

\* A reader that leaves the loop, and so closes the connection, at a line
\* that gave no update.
DeliverOrLeave(line, update) ==
    /\ conn' = [conn EXCEPT
                  !.pc = IF update = None THEN "closed" ELSE "open",
                  !.buffer = Drop(conn.buffer, Len(line)),
                  !.read = Append(conn.read, line),
                  !.delivered = conn.delivered \o update]
    /\ IF update = None
       THEN UNCHANGED << resources, meta, applied >>
       ELSE /\ resources' = SocketUpdate(Val(update)).resources
            /\ meta' = SocketUpdate(Val(update)).meta
            /\ applied' = SocketUpdate(Val(update)).applied

\* The line is taken off the stream and, if it gave an update, the update
\* goes to _handle_socket_update.
Deliver(line, update) ==
    /\ conn' = [conn EXCEPT
                  !.buffer = Drop(conn.buffer, Len(line)),
                  !.read = Append(conn.read, line),
                  !.delivered = conn.delivered \o update]
    /\ IF update = None
       THEN UNCHANGED << resources, meta, applied >>
       ELSE /\ resources' = SocketUpdate(Val(update)).resources
            /\ meta' = SocketUpdate(Val(update)).meta
            /\ applied' = SocketUpdate(Val(update)).applied

ReadLineOf(line) == Deliver(line, DecodeLine(line))

\* One round of _handle_client's loop: a line is read and, if it decodes,
\* handed to _handle_socket_update.
ReadLine ==
    /\ conn.pc = "open"
    /\ conn.buffer # <<>>
    /\ HasLine(conn.buffer) \/ conn.eof
    /\ ReadLineOf(SubSeq(conn.buffer, 1, LineLen(conn.buffer)))
    /\ BridgeFrame

\* _handle_client at the end of the stream: the loop ends and the finally
\* clause closes the connection.
ReaderClose ==
    /\ conn.pc = "open"
    /\ conn.eof
    /\ conn.buffer = <<>>
    /\ conn' = [conn EXCEPT !.pc = "closed"]
    /\ UNCHANGED << resources, meta, applied >>
    /\ BridgeFrame

\* ------------------------------------------------------------ the clock

Tick ==
    /\ now < MaxNow
    /\ now' = now + 1
    /\ UNCHANGED << governor, killswitch, rate_listeners, poller, th,
                    monitor >>

\* ------------------------------------------------------------ specifications

\* The governor alone: one caller of a LocalGratekeeper, as in
\* tests/test_ratekeeper.py.
KeeperNext ==
    \/ \E t \in Threads :
           \/ \E b \in Buckets : CallBeforeRequest(t, b)
           \/ \E b \in Observed, headers \in HeaderMaps :
                  CallAfterResponse(t, headers, b)
           \/ \E b \in Buckets : CallSnapshot(t, b)
           \/ BeforeRequest(t)
           \/ Sleep(t)
           \/ AfterResponse(t)
           \/ Return(t)
    \/ Tick

KeeperSpec == KeeperInit /\ [][KeeperNext]_vars

\* The client: one caller of a RateLimitedGitHubClient and its poller loop.
Next ==
    \/ \E t \in Threads :
           \/ \E b \in Observed, raise \in BOOLEAN : Request(t, b, raise)
           \/ GateTest(t)
           \/ GateCompare(t)
           \/ GateClear(t)
           \/ BeforeRequest(t)
           \/ Sleep(t)
           \/ TransportRaise(t)
           \/ \E response \in Responses : TransportReturn(t, response)
           \/ AfterResponse(t)
           \/ Notify(t)
           \/ NotifySnapshot(t)
           \/ \E raised \in BOOLEAN : NotifyCall(t, raised)
           \/ Status(t)
           \/ Return(t)
           \/ \E until \in Deadlines, reason \in Reasons :
                  SetKillswitch(t, until, reason)
           \/ ClearKillswitch(t)
           \/ \E l \in Listeners : AddListener(t, l)
           \/ \E l \in Listeners : RemoveListener(t, l)
           \/ \E b \in Buckets : CallSnapshot(t, b)
           \/ StartPolling(t)
           \/ StopPolling(t)
           \/ StopJoin(t)
    \/ PollSignalled
    \/ Tick

Spec == Init /\ [][Next]_vars

\* Responses without rate-limit headers: the governor stays out of the way.
PlainResponses == [status_code : {200}, headers : {<<>>}]

\* The client with a scheduled kill-switch: one caller that schedules or
\* clears the kill-switch and sends requests while the clock runs.
ScheduleNext ==
    \/ \E t \in Threads :
           \/ \E after_seconds \in Delays, reason \in Reasons :
                  CallScheduleKillswitch(t, after_seconds, reason)
           \/ ScheduleKillswitch(t)
           \/ ClearKillswitch(t)
           \/ \E b \in Observed, raise \in BOOLEAN : Request(t, b, raise)
           \/ GateTest(t)
           \/ GateCompare(t)
           \/ GateClear(t)
           \/ BeforeRequest(t)
           \/ \E response \in PlainResponses : TransportReturn(t, response)
           \/ AfterResponse(t)
           \/ Status(t)
           \/ Return(t)
    \/ Tick

ScheduleSpec == Init /\ [][ScheduleNext]_vars

\* Responses for the listener fan-out: with and without rate-limit headers,
\* with a success and an error status.
FanOutResponses ==
    [ status_code : StatusCodes,
      headers : { <<>>, Headers(<<"3">>, <<"3">>, <<"3">>),
                  Headers(<<"3">>, <<"0">>, <<"3">>),
                  (HRemaining :> <<"3">>) } ]

\* The client and its listeners: one caller that registers and removes two
\* callbacks and sends requests; a callback may raise.
FanOutNext ==
    \E t \in Threads :
        \/ \E l \in Callbacks : CallAddListener(t, l)
        \/ AddListenerLocked(t)
        \/ \E l \in Callbacks : CallRemoveListener(t, l)
        \/ RemoveListenerLocked(t)
        \/ \E b \in Observed, raise \in BOOLEAN : Request(t, b, raise)
        \/ GateTest(t)
        \/ BeforeRequest(t)
        \/ Sleep(t)
        \/ \E response \in FanOutResponses : TransportReturn(t, response)
        \/ AfterResponse(t)
        \/ Notify(t)
        \/ NotifySnapshot(t)
        \/ \E raised \in BOOLEAN : NotifyCall(t, raised)
        \/ Status(t)
        \/ Return(t)

FanOutSpec == Init /\ [][FanOutNext]_vars

\* Responses for two threads at once: two observations that differ, and one
\* without rate-limit headers.
SharedResponses ==
    [ status_code : {200},
      headers : { <<>>, Headers(<<"3">>, <<"3">>, <<"3">>),
                  Headers(<<"3">>, <<"0">>, <<"3">>) } ]

\* Two threads sending requests through one client, any of them registering
\* or removing a listener in between.
SharedNext ==
    \E t \in Workers :
        \/ \E l \in Listeners : AddListener(t, l)
        \/ \E l \in Listeners : RemoveListener(t, l)
        \/ \E b \in Observed : Request(t, b, TRUE)
        \/ GateTest(t)
        \/ BeforeRequest(t)
        \/ Sleep(t)
        \/ \E response \in SharedResponses : TransportReturn(t, response)
        \/ AfterResponse(t)
        \/ Notify(t)
        \/ NotifySnapshot(t)
        \/ NotifyCall(t, FALSE)
        \/ Status(t)
        \/ Return(t)

SharedSpec == SharedInit /\ [][SharedNext]_vars

\* Responses for a client with a poller: with and without rate-limit
\* headers, with a success and an error status.
PollerResponses ==
    [ status_code : StatusCodes,
      headers : { <<>>, Headers(<<"3">>, <<"3">>, <<"3">>) } ]

\* The client with its poller: the main thread starts the poller, sets and
\* clears the kill-switch and sends requests; the poller loop waits, wakes
\* and sends its refresh calls.  The poller is not stopped here.
PollerNext ==
    \/ StartPolling("main")
    \/ \E until \in Deadlines, reason \in Reasons :
           SetKillswitch("main", until, reason)
    \/ \E b \in Observed : Request("main", b, TRUE)
    \/ Return("main")
    \/ \E t \in Callers :
           \/ GateTest(t)
           \/ GateCompare(t)
           \/ BeforeRequest(t)
           \/ Sleep(t)
           \/ TransportRaise(t)
           \/ \E response \in PollerResponses : TransportReturn(t, response)
           \/ AfterResponse(t)
           \/ Notify(t)
           \/ Status(t)
    \/ PollWaitSignalled
    \/ PollWaitTimedOut
    \/ PollClear
    \/ \E json_ok \in BOOLEAN : PollDone(json_ok)

PollerSpec == PollerInit /\ [][PollerNext]_vars

\* The same, with the poller loop's own progress: a wait whose interval
\* elapses unsignalled returns, and the loop's thread goes on from there.
PollerLiveSpec ==
    /\ PollerInit
    /\ [][PollerNext]_vars
    /\ WF_vars(PollWaitTimedOut)
    /\ WF_vars(PollClear)

\* Responses to a refresh call: without rate-limit headers, and with a
\* remaining quota of zero, which makes the next refresh call sleep.
LifecycleResponses ==
    [ status_code : {200},
      headers : { <<>>, Headers(<<"3">>, <<"0">>, <<"3">>) } ]

\* One step of the loop running on thread l: the loop itself or the
\* refresh call it is in.
LoopStep(l) ==
    \/ LoopWaitSignalled(l)
    \/ LoopWaitTimedOut(l)
    \/ LoopClear(l)
    \/ \E json_ok \in BOOLEAN : LoopDone(l, json_ok)
    \/ GateTest(l)
    \/ BeforeRequest(l)
    \/ Sleep(l)
    \/ TransportRaise(l)
    \/ \E response \in LifecycleResponses : TransportReturn(l, response)
    \/ AfterResponse(l)
    \/ Notify(l)
    \/ Status(l)

\* The poller's life: the main thread starts and stops the poller, and a
\* stop's join may time out while the loop is inside a refresh call.
LifecycleNext ==
    \/ StartPolling("main")
    \/ StopPolling("main")
    \/ StopJoin("main")
    \/ StopJoinTimeout("main")
    \/ \E l \in Loops : LoopStep(l)

LifecycleSpec == LifecycleInit /\ [][LifecycleNext]_vars

\* The same, with the progress of every loop's thread: a thread that can
\* take a step of its loop or of its refresh call eventually takes one.
LifecycleLiveSpec ==
    /\ LifecycleInit
    /\ [][LifecycleNext]_vars
    /\ \A l \in Loops : WF_vars(LoopStep(l))

\* A dashboard after construction, at a time of day past the epoch.
ReconcilerInit ==
    /\ cfg = [num |-> 1, den |-> 2, soft_floor_min |-> 1,
              safety_buffer_seconds |-> 3]
    /\ enable_ratekeeping = TRUE
    /\ now = 1
    /\ buckets = <<>>
    /\ keeper_lock = None
    /\ killswitch_until = None
    /\ killswitch_reason = None
    /\ killswitch_scheduled = None
    /\ rate_listeners = <<>>
    /\ poll_thread = None
    /\ poll_pc = "none"
    /\ poll_pc2 = "none"
    /\ poll_stop_event = FALSE
    /\ poll_reset_event = FALSE
    /\ MonitorInit
    /\ th = [t \in Threads |-> IdleThread]

\* One entry of the "resources" object of GET /rate_limit.
FetchedEntry(remaining) ==
    JObj(("limit" :> JInt(60)) @@ ("remaining" :> JInt(remaining))
         @@ ("reset" :> JInt(3)))

\* The bodies get_json("/rate_limit", raise_for_status=False) may return:
\* the resources of core and search, of core alone, an error body without
\* resources, a body that is no object, and resources that are a list.
FetchPayloads ==
    { JObj("resources" :> JObj(("core" :> FetchedEntry(50))
                               @@ ("search" :> FetchedEntry(50)))),
      JObj("resources" :> JObj("core" :> FetchedEntry(50))),
      JObj("message" :> JStr(<<"n", "o">>)),
      JList,
      JObj("resources" :> JList) }

\* The snapshots the client's listener fan-out delivers.
ListenerSnapshots ==
    { [bucket |-> "core",
       state |-> [limit |-> Some(60), remaining |-> Some(45),
                  reset_ts |-> Some(3)]] }

\* The updates the bridge delivers.
BridgeUpdates ==
    { [bucket |-> b, limit |-> Some(60), remaining |-> Some(40),
       reset_ts |-> None] : b \in DashBuckets }

\* The dashboard's reconciler: updates from the client's listeners, from the
\* bridge and from its own pulls of /rate_limit, while the clock runs.
ReconcilerNext ==
    \/ \E u \in ListenerSnapshots : ApplySnapshot(u.bucket, u.state)
    \/ \E update \in BridgeUpdates : HandleSocketUpdate(update)
    \/ Mount
    \/ PeriodicPull
    \/ RefreshNow
    \/ \E payload \in FetchPayloads : FetchReturn(payload)
    \/ FetchRaise
    \/ Tick

ReconcilerSpec == ReconcilerInit /\ [][ReconcilerNext]_vars

CoreText == << "c", "o", "r", "e" >>

SearchText == << "s", "e", "a", "r", "c", "h" >>

\* A bucket name that json.dumps has to escape.
OddText == << "a", "\"", "\\", "b" >>

\* The text of an object with the bridge's four fields, each given as JSON
\* text.
ObjectText(bucket, limit, remaining, reset_ts) ==
    << "{" >> \o DumpsStr(BucketKey) \o << ":" >> \o bucket \o << "," >>
        \o DumpsStr(LimitKey) \o << ":" >> \o limit \o << "," >>
        \o DumpsStr(RemainingKey) \o << ":" >> \o remaining \o << "," >>
        \o DumpsStr(ResetTsKey) \o << ":" >> \o reset_ts \o << "}" >>

\* {"bucket":"core","limit":60,"remaining":40,"reset_ts":90}
GoodLine ==
    ObjectText(DumpsStr(CoreText), << "6", "0" >>, << "4", "0" >>,
               << "9", "0" >>)

\* {"bucket":"search","limit":"30","remaining":"x","reset_ts":90}
WordLine ==
    ObjectText(DumpsStr(SearchText), << "\"", "3", "0", "\"" >>,
               << "\"", "x", "\"" >>, << "9", "0" >>)

\* {"bucket":"search","limit":30,"remaining":1e999,"reset_ts":90}
HugeLine ==
    ObjectText(DumpsStr(SearchText), << "3", "0" >>,
               << "1", "e", "9", "9", "9" >>, << "9", "0" >>)

\* {"bucket":"core","limit":30,"remaining":[7],"reset_ts":null}
ListLine ==
    ObjectText(DumpsStr(CoreText), << "3", "0" >>, << "[", "7", "]" >>,
               << "n", "u", "l", "l" >>)

\* {"bucket":"core","limit":60,"remaining":40,"reset_ts":90  (cut short)
CutLine == SubSeq(GoodLine, 1, Len(GoodLine) - 1)

\* ["core"]
ArrayLine == << "[" >> \o DumpsStr(CoreText) \o << "]" >>

\* {"limit":60}
NoBucketLine ==
    << "{" >> \o DumpsStr(LimitKey) \o << ":", "6", "0", "}" >>

\* {"bucket":"","limit":60,"remaining":40,"reset_ts":90}
EmptyBucketLine ==
    ObjectText(<< "\"", "\"" >>, << "6", "0" >>, << "4", "0" >>,
               << "9", "0" >>)

\* The lines a writer may send.
BridgeLines ==
    { GoodLine, WordLine, HugeLine, ListLine, CutLine, ArrayLine,
      NoBucketLine, EmptyBucketLine, <<>> }

\* The updates emit_update is called with.
EmitUpdates ==
    [bucket : {CoreText, OddText, <<>>}, limit : {None, Some(60)},
     remaining : {None, Some(0), Some(-1)}, reset_ts : {Some(90)}]

\* The bridge: the dashboard's socket server, emit_update and other writers.
BridgeNext ==
    \/ StartBridge
    \/ StopBridge
    \/ \E update \in EmitUpdates, with_path \in BOOLEAN :
           EmitUpdate(update, with_path)
    \/ Connect
    \/ \E text \in BridgeLines : Write(text)
    \/ Shutdown
    \/ ReadLine
    \/ ReaderClose

BridgeSpec == ReconcilerInit /\ [][BridgeNext]_vars

\* The deadlines set_killswitch is called with.
GateDeadlines == {1, 3}

\* Two threads using one client: either sets the kill-switch or sends a
\* request, while the clock runs.
GateNext ==
    \/ \E t \in Workers :
           \/ \E until \in GateDeadlines : SetKillswitch(t, Some(until), None)
           \/ Request(t, "core", TRUE)
           \/ GateTest(t)
           \/ GateCompare(t)
           \/ GateClear(t)
           \/ BeforeRequest(t)
           \/ \E response \in PlainResponses : TransportReturn(t, response)
           \/ AfterResponse(t)
           \/ Status(t)
           \/ Return(t)
    \/ Tick

GateSpec == GateInit /\ [][GateNext]_vars

\* The headers the two threads report.
LockHeaders ==
    { Headers(<<"3">>, <<"0">>, <<"3">>), Headers(<<"3">>, <<"3">>, <<"3">>) }

\* Two threads calling one LocalGratekeeper directly, on two buckets, within
\* one second of the clock.
LockNext ==
    \E t \in Workers :
        \/ \E b \in Buckets : CallBeforeRequest(t, b)
        \/ \E b \in Buckets, headers \in LockHeaders :
               CallAfterResponse(t, headers, b)
        \/ \E b \in Buckets : CallSnapshot(t, b)
        \/ BeforeRequest(t)
        \/ Sleep(t)
        \/ AfterResponse(t)
        \/ Return(t)

LockSpec == GateInit /\ [][LockNext]_vars


\* The response of a client whose listeners change during a pass.
MidPassResponse ==
    [status_code |-> 200, headers |-> Headers(<<"3">>, <<"3">>, <<"3">>)]

\* One thread sends requests, and its listeners may register or remove a
\* callback when they are called; the other thread registers and removes
\* callbacks at any moment.
MidPassNext ==
    \/ \E l \in Callbacks : CallAddListener("worker", l)
    \/ LockedAdd("worker")
    \/ \E l \in Callbacks : CallRemoveListener("worker", l)
    \/ LockedRemove("worker")
    \/ Return("worker")
    \/ Request("main", "core", TRUE)
    \/ GateTest("main")
    \/ BeforeRequest("main")
    \/ TransportReturn("main", MidPassResponse)
    \/ AfterResponse("main")
    \/ LockedNotify("main")
    \/ NotifySnapshot("main")
    \/ NotifyCall("main", FALSE)
    \/ \E l \in Callbacks, add \in BOOLEAN : ListenerCall("main", l, add)
    \/ Status("main")
    \/ Return("main")

MidPassSpec == GateInit /\ [][MidPassNext]_vars

\* The response each of two threads reports, all three headers in each and
\* no value in common.
ObserveHeaders(t) ==
    IF t = "main" THEN Headers(<<"3">>, <<"3">>, <<"3">>)
    ELSE Headers(<<"5">>, <<"4">>, <<"9">>)

\* Two threads reporting responses to one LocalGratekeeper and taking
\* snapshots of it, on two buckets.
ObserveNext ==
    \E t \in Workers :
        \/ \E b \in Buckets : CallAfterResponse(t, ObserveHeaders(t), b)
        \/ \E b \in Buckets : TakeSnapshot(t, b)
        \/ AfterResponse(t)
        \/ Return(t)

ObserveSpec == GateInit /\ [][ObserveNext]_vars

\* ------------------------------------------------------------ properties

\* Thread t takes the step that leaves its position "where".
Steps(t, where) == th[t].pc = where /\ th'[t] # th[t]

AllUnset == [limit |-> <<>>, remaining |-> <<>>, reset_ts |-> <<>>]

Triple(l, r, s) == [limit |-> <<l>>, remaining |-> <<r>>, reset_ts |-> <<s>>]

\* The soft floor as the specification states it:
\* max(floor(limit * softFloorFraction), softFloorMin).
StatedSoftFloor(limit) ==
    Max((limit * cfg.num) \div cfg.den, cfg.soft_floor_min)

\* What a header string is worth as an integer, spelled out for the strings
\* the model sends: <<>> (none) when it is blank or not a number.
StatedInt(str) ==
    CASE str = <<"0">> -> <<0>>
      [] str = <<"3">> -> <<3>>
      [] str = <<"0", "3">> -> <<3>>
      [] OTHER -> <<>>

\* The field a header sets, when the header is there and is an integer.
Observation(headers, name) ==
    IF name \in DOMAIN headers THEN StatedInt(headers[name]) ELSE <<>>

\* C1: at or under the soft floor with the reset strictly ahead,
\* before_request asks for a sleep of (reset - now) + safetyBufferSeconds,
\* leaves limit, remaining and reset as they are (no decrement), and the
\* sleep is one sleep_fn call of that length, after which the call goes on.
C1_SleepsOnceUnderFloor ==
    [][\A t \in Threads :
          LET b == th[t].bucket
              s == Snapshot(buckets, b)
          IN  /\ ( /\ Steps(t, "before")
                   /\ IsSet(s.limit) /\ IsSet(s.remaining) /\ IsSet(s.reset_ts)
                   /\ Val(s.remaining) <= StatedSoftFloor(Val(s.limit))
                   /\ now < Val(s.reset_ts) )
                 => /\ th'[t].pc = "sleep"
                    /\ th'[t].sleep_for =
                           <<Val(s.reset_ts) - now + cfg.safety_buffer_seconds>>
                    /\ th'[t].slept = <<>>
                    /\ Snapshot(buckets', b) = s
              /\ Steps(t, "sleep")
                 => /\ th'[t].slept = <<Val(th[t].sleep_for)>>
                    /\ th'[t].pc # "sleep"
                    /\ Snapshot(buckets', b) = s
      ]_vars

\* limit 3, remaining 1 (the floor at fraction 0.5), reset 3, buffer 3: a
\* direct before_request has slept once, 6 seconds, and remaining is still 1.
C1_Witness ==
    \E t \in Threads :
        /\ th[t].pc = "done"
        /\ th[t].call = "before_request"
        /\ cfg.safety_buffer_seconds = 3
        /\ th[t].entry = Triple(3, 1, 3)
        /\ th[t].slept = <<6>>
        /\ Snapshot(buckets, th[t].bucket) = Triple(3, 1, 3)

\* C2: with limit and remaining stored and remaining above the soft floor,
\* before_request does not sleep, whatever the reset timestamp is.
C2_NoSleepAboveFloor ==
    [][\A t \in Threads :
          LET s == Snapshot(buckets, th[t].bucket)
          IN  ( /\ Steps(t, "before")
                /\ IsSet(s.limit) /\ IsSet(s.remaining)
                /\ Val(s.remaining) > StatedSoftFloor(Val(s.limit)) )
              => /\ th'[t].pc # "sleep"
                 /\ th'[t].sleep_for = <<>>
                 /\ th'[t].slept = <<>>
      ]_vars

\* Observed limit 3, remaining 2 (floor 1), reset 3 still ahead: the
\* before_request that followed has returned without a sleep.
C2_Witness ==
    \E t \in Threads :
        /\ th[t].pc = "done"
        /\ th[t].call = "before_request"
        /\ th[t].entry = Triple(3, 2, 3)
        /\ now < 3
        /\ th[t].slept = <<>>

\* C6: after_response overwrites exactly the fields whose header is present
\* and an integer; a missing, blank or non-numeric header leaves its field
\* at the previous value; the call returns normally.
C6_OverwritesParsedFieldsOnly ==
    [][\A t \in Threads :
          LET b == th[t].bucket
              s == Snapshot(buckets, b)
              h == Val(th[t].headers)
              limit == Observation(h, HLimit)
              remaining == Observation(h, HRemaining)
              reset == Observation(h, HReset)
          IN  Steps(t, "after")
              => /\ Snapshot(buckets', b) =
                       [ limit |-> IF limit # <<>> THEN limit ELSE s.limit,
                         remaining |-> IF remaining # <<>> THEN remaining
                                       ELSE s.remaining,
                         reset_ts |-> IF reset # <<>> THEN reset
                                      ELSE s.reset_ts ]
                 /\ th[t].call = "after_response"
                    => th'[t].pc = "done" /\ th'[t].result.kind = "ok"
      ]_vars

\* A direct after_response on a bucket at (3, 3, 3) whose headers held no
\* integer at all has returned, and the bucket is still at (3, 3, 3).
C6_Witness ==
    \E t \in Threads :
        /\ th[t].pc = "done"
        /\ th[t].call = "after_response"
        /\ ~th[t].updated
        /\ th[t].entry = Triple(3, 3, 3)
        /\ Snapshot(buckets, th[t].bucket) = Triple(3, 3, 3)

\* C7: once the stored reset timestamp has passed (now >= reset),
\* before_request clears limit, remaining and reset and returns without a
\* sleep; and nothing but an after_response sets a field of a bucket whose
\* fields are all unset, so a snapshot shows them unset until then.
C7_ClearsPassedWindow ==
    [][/\ \A t \in Threads :
              LET b == th[t].bucket
                  s == Snapshot(buckets, b)
              IN  ( /\ Steps(t, "before")
                    /\ IsSet(s.reset_ts)
                    /\ now >= Val(s.reset_ts) )
                  => /\ Snapshot(buckets', b) = AllUnset
                     /\ th'[t].pc # "sleep"
                     /\ th'[t].sleep_for = <<>>
                     /\ th'[t].slept = <<>>
       /\ \A b \in Buckets :
              ( /\ \A t \in Threads : ~Steps(t, "after")
                /\ Snapshot(buckets, b) = AllUnset )
              => Snapshot(buckets', b) = AllUnset
      ]_vars

\* A before_request that found (3, 3, 0), a reset already past at any time,
\* has returned without a sleep and the bucket is all unset.
C7_Witness ==
    \E t \in Threads :
        /\ th[t].pc = "done"
        /\ th[t].call = "before_request"
        /\ th[t].entry = Triple(3, 3, 0)
        /\ th[t].slept = <<>>
        /\ Snapshot(buckets, th[t].bucket) = AllUnset

\* C8: when before_request does not sleep, limit and remaining are set,
\* remaining > 0 and the window has not been reset (no reset timestamp, or
\* one still ahead), remaining goes down by exactly 1 and limit and reset
\* stay.
C8_DecrementsByOne ==
    [][\A t \in Threads :
          LET b == th[t].bucket
              s == Snapshot(buckets, b)
          IN  ( /\ Steps(t, "before")
                /\ IsSet(s.limit) /\ IsSet(s.remaining)
                /\ Val(s.remaining) > 0
                /\ ~(IsSet(s.reset_ts) /\ now >= Val(s.reset_ts))
                /\ th'[t].pc # "sleep" )
              => Snapshot(buckets', b) =
                     [ limit |-> s.limit,
                       remaining |-> <<Val(s.remaining) - 1>>,
                       reset_ts |-> s.reset_ts ]
      ]_vars

\* A before_request that found (3, 3, 3) before the reset has returned
\* without a sleep and left (3, 2, 3).
C8_Witness ==
    \E t \in Threads :
        /\ th[t].pc = "done"
        /\ th[t].call = "before_request"
        /\ th[t].entry = Triple(3, 3, 3)
        /\ th[t].slept = <<>>
        /\ Snapshot(buckets, th[t].bucket) = Triple(3, 2, 3)

\* C10: before_request on a bucket never observed (no entry yet, or an
\* entry with nothing set) returns without a sleep and without an error,
\* and the bucket's three fields are unset afterwards.
C10_UnobservedBucketPasses ==
    [][\A t \in Threads :
          LET b == th[t].bucket
          IN  ( /\ Steps(t, "before")
                /\ (b \notin DOMAIN buckets \/ buckets[b] = AllUnset) )
              => /\ th'[t].pc # "sleep"
                 /\ th'[t].sleep_for = <<>>
                 /\ th'[t].slept = <<>>
                 /\ th'[t].result.kind \in {"none", "ok"}
                 /\ th[t].call = "before_request"
                    => th'[t].pc = "done" /\ th'[t].result.kind = "ok"
                 /\ b \in DOMAIN buckets'
                 /\ buckets'[b] = AllUnset
      ]_vars

\* A direct before_request on the bucket no response was ever stored for
\* has returned: no sleep, no error, the entry it created is all unset.
C10_Witness ==
    \E t \in Threads :
        /\ th[t].pc = "done"
        /\ th[t].call = "before_request"
        /\ th[t].bucket \notin Observed
        /\ th[t].result.kind = "ok"
        /\ th[t].slept = <<>>
        /\ th[t].bucket \in DOMAIN buckets
        /\ buckets[th[t].bucket] = AllUnset

\* C3: while a kill-switch deadline is set and now < deadline, a request
\* fails at the gate with the Blocked error carrying the deadline and the
\* reason (or "killswitch active" when none was given), has made no
\* transport call and leaves the kill-switch as it is; a request that finds
\* now >= deadline clears deadline and reason and goes on to the governor
\* and the transport.
C3_GateBlocksUntilDeadline ==
    [][\A t \in Threads :
          /\ (Steps(t, "gate") /\ killswitch_until # <<>>)
             => th'[t].pc = "gate_compare"
          /\ ( /\ Steps(t, "gate_compare")
               /\ killswitch_until # <<>>
               /\ now < killswitch_until[1] )
             => /\ th'[t].pc = "done"
                /\ th'[t].result =
                       [ kind |-> "Blocked",
                         until |-> killswitch_until,
                         reason |-> IF killswitch_reason # <<>>
                                        THEN killswitch_reason
                                    ELSE <<"killswitch active">> ]
                /\ th'[t].calls = 0
                /\ killswitch_until' = killswitch_until
                /\ killswitch_reason' = killswitch_reason
          /\ ( /\ Steps(t, "gate_compare")
               /\ killswitch_until # <<>>
               /\ now >= killswitch_until[1] )
             => th'[t].pc = "gate_clear" /\ th'[t].result.kind = "none"
          /\ Steps(t, "gate_clear")
             => /\ killswitch_until' = <<>>
                /\ killswitch_reason' = <<>>
                /\ th'[t].pc = IF enable_ratekeeping THEN "before"
                               ELSE "transport"
          /\ (Steps(t, "before") /\ th[t].call = "request")
             => th'[t].pc \in {"sleep", "transport"}
          /\ (Steps(t, "sleep") /\ th[t].call = "request")
             => th'[t].pc = "transport"
          /\ (Steps(t, "transport") /\ th[t].calls = 0)
             => th'[t].calls = 1
          /\ th[t].result.kind = "Blocked" => th[t].calls = 0
      ]_vars

\* A request made before the deadline has failed with Blocked, the
\* deadline and the reason "maintenance" in the error, no transport call,
\* the kill-switch still set.
C3_Witness ==
    \E t \in Threads :
        /\ th[t].pc = "done"
        /\ killswitch_until # <<>>
        /\ now < killswitch_until[1]
        /\ th[t].result = [ kind |-> "Blocked", until |-> killswitch_until,
                            reason |-> <<"maintenance">> ]
        /\ th[t].calls = 0

\* C4 as stated: after_response returns true exactly when the value of at
\* least one stored field changed.
C4_TrueOnlyOnChange ==
    [][\A t \in Threads :
          Steps(t, "after")
          => (th'[t].updated
              <=> Snapshot(buckets', th[t].bucket)
                      # Snapshot(buckets, th[t].bucket))
      ]_vars

\* C4, amended: after_response returns true exactly when at least one of
\* the three headers is present and an integer, whether or not the value
\* differs from the stored one; the pipeline then signals the poller's
\* timer reset (when a poller is alive) and copies the listener list to
\* notify; when it returns false the pipeline does neither.
C4_TrueOnAnyParsedHeader ==
    [][\A t \in Threads :
          /\ Steps(t, "after")
             => LET h == Val(th[t].headers)
                IN  /\ th'[t].updated
                       <=> \E name \in {HLimit, HRemaining, HReset} :
                               Observation(h, name) # <<>>
                    /\ th[t].call = "request"
                       => th'[t].pc = IF th'[t].updated THEN "notify"
                                      ELSE "status"
                    /\ poll_reset_event' = poll_reset_event
                    /\ th'[t].notified = <<>>
          /\ Steps(t, "notify")
             => /\ th[t].updated
                /\ poll_reset_event' =
                       (poll_reset_event
                        \/ (poll_thread # <<>> /\ poll_pc = "wait"))
                /\ th'[t].listeners = rate_listeners
                /\ th'[t].pc = IF rate_listeners = <<>> THEN "status"
                               ELSE "notify_snapshot"
          /\ Steps(t, "notify_call")
             => /\ th[t].updated
                /\ Len(th'[t].notified) = Len(th[t].notified) + 1
          /\ (th[t].pc \in {"status", "done"} /\ ~th[t].updated)
             => th[t].notified = <<>>
      ]_vars

\* A request found (3, 0, 3), slept instead of decrementing, got a response
\* repeating 3, 0, 3: after_response returned true and the listener was
\* notified, the bucket being what it was.
C4_Witness ==
    \E t \in Threads :
        /\ th[t].pc = "done"
        /\ th[t].call = "request"
        /\ th[t].entry = Triple(3, 0, 3)
        /\ th[t].slept # <<>>
        /\ th[t].response # <<>>
        /\ th[t].response[1].headers = Headers(<<"3">>, <<"0">>, <<"3">>)
        /\ th[t].updated
        /\ Len(th[t].notified) = 1
        /\ Snapshot(buckets, th[t].bucket) = Triple(3, 0, 3)

\* C5 as stated: after a request whose transport call raised, limit,
\* remaining and reset are what they were before the request was attempted.
C5_FailureRestoresEntryState ==
    \A t \in Threads :
        (th[t].pc = "done" /\ th[t].result.kind = "TransportError")
        => Snapshot(buckets, th[t].bucket) = th[t].entry

\* C5, amended: when the transport call raises, the error reaches the caller
\* as it is, after_response is not called, no listener is notified and the
\* poller's timer is not reset, and the bucket is left as before_request
\* left it: as it was before the request, or with remaining one lower
\* (speculative decrement), or all unset (window reset passed).
C5_FailureKeepsBeforeRequestState ==
    [][\A t \in Threads :
          /\ (Steps(t, "transport") /\ th'[t].response = <<>>)
             => /\ th'[t].pc = "done"
                /\ th'[t].result = [ kind |-> "TransportError",
                                     until |-> <<>>, reason |-> <<>> ]
                /\ buckets' = buckets
          /\ ( /\ th[t].call = "request"
               /\ th[t].pc \in {"gate", "gate_compare", "gate_clear",
                                "before", "sleep", "transport"}
               /\ th'[t] # th[t] )
             => /\ poll_reset_event' = poll_reset_event
                /\ rate_listeners' = rate_listeners
                /\ th'[t].notified = <<>>
                /\ ~th'[t].updated
          /\ (th[t].pc = "done" /\ th[t].result.kind = "TransportError")
             => LET e == th[t].entry
                    s == Snapshot(buckets, th[t].bucket)
                IN  \/ s = e
                    \/ /\ e.limit # <<>> /\ e.remaining # <<>>
                       /\ e.remaining[1] > 0
                       /\ s = [ limit |-> e.limit,
                                remaining |-> <<e.remaining[1] - 1>>,
                                reset_ts |-> e.reset_ts ]
                    \/ e.reset_ts # <<>> /\ s = AllUnset
      ]_vars

\* A request found (3, 3, 3), decremented to (3, 2, 3), and its transport
\* call raised: the caller has the transport error, no listener was called,
\* and the bucket is still at (3, 2, 3).
C5_Witness ==
    \E t \in Threads :
        /\ th[t].pc = "done"
        /\ th[t].result.kind = "TransportError"
        /\ th[t].calls = 1
        /\ th[t].entry = Triple(3, 3, 3)
        /\ Snapshot(buckets, th[t].bucket) = Triple(3, 2, 3)
        /\ th[t].notified = <<>>
        /\ rate_listeners # <<>>

\* C9: whatever before_request calls went before (each failed request
\* leaves its speculative decrement behind), an after_response whose
\* remaining header is the integer r leaves remaining = r; and with
\* ratekeeping enabled, a request that returns a response carrying the three
\* headers as integers leaves the bucket's snapshot equal to them.
C9_ObservationReplacesEstimate ==
    [][\A t \in Threads :
          /\ ( /\ Steps(t, "after")
               /\ Observation(Val(th[t].headers), HRemaining) # <<>> )
             => Snapshot(buckets', th[t].bucket).remaining =
                    Observation(Val(th[t].headers), HRemaining)
          /\ ( /\ th[t].pc = "done"
               /\ th[t].call = "request"
               /\ th[t].result.kind = "ok"
               /\ enable_ratekeeping
               /\ \A name \in {HLimit, HRemaining, HReset} :
                      Observation(th[t].response[1].headers, name) # <<>> )
             => LET h == th[t].response[1].headers
                IN  Snapshot(buckets, th[t].bucket) =
                        [ limit |-> Observation(h, HLimit),
                          remaining |-> Observation(h, HRemaining),
                          reset_ts |-> Observation(h, HReset) ]
      ]_vars

\* A request found the estimate (3, 2, 3) left by an earlier failed request,
\* decremented it again, and its response carried 3, 3, 3: the request has
\* succeeded and the snapshot is (3, 3, 3).
C9_Witness ==
    \E t \in Threads :
        /\ th[t].pc = "done"
        /\ th[t].call = "request"
        /\ th[t].result.kind = "ok"
        /\ th[t].entry = Triple(3, 2, 3)
        /\ th[t].slept = <<>>
        /\ th[t].response # <<>>
        /\ th[t].response[1].headers = Headers(<<"3">>, <<"3">>, <<"3">>)
        /\ Snapshot(buckets, th[t].bucket) = Triple(3, 3, 3)

C12_SendsThenStopsAfterDelay ==
    [][\A t \in Threads :
          (Steps(t, "gate_compare") /\ killswitch_scheduled # <<>>)
          => LET at == killswitch_scheduled[1].at
                 s == killswitch_scheduled[1].after_seconds
             IN  /\ now < at + s => th'[t].result.kind # "Blocked"
                 /\ now >= at + s => th'[t].result.kind = "Blocked"
      ]_vars

\* The listeners a request has called so far, in the order of the calls.
NotifiedListeners(t) ==
    [i \in 1..Len(th[t].notified) |-> th[t].notified[i].listener]

\* C13: when a request raises the HTTP error for a non-2xx status (raise on
\* error status requested), with ratekeeping enabled, after_response has
\* already been applied and, if it reported an update, every listener has
\* already been called: at the raising step the bucket holds each
\* rate-limit header of that response that is an integer, and the step
\* itself changes neither the bucket nor the notifications.
C13_BookkeepingBeforeHttpError ==
    [][\A t \in Threads :
          (Steps(t, "status") /\ th'[t].result.kind = "HTTPError")
          => /\ th[t].raise_for_status
             /\ th[t].response # <<>>
             /\ th[t].response[1].status_code >= 400
             /\ th'[t].pc = "done"
             /\ buckets' = buckets
             /\ th'[t].notified = th[t].notified
             /\ enable_ratekeeping
                => LET h == th[t].response[1].headers
                       s == Snapshot(buckets, th[t].bucket)
                   IN  /\ Observation(h, HLimit) # <<>>
                          => s.limit = Observation(h, HLimit)
                       /\ Observation(h, HRemaining) # <<>>
                          => s.remaining = Observation(h, HRemaining)
                       /\ Observation(h, HReset) # <<>>
                          => s.reset_ts = Observation(h, HReset)
                       /\ th[t].updated
                          <=> \E name \in {HLimit, HRemaining, HReset} :
                                  Observation(h, name) # <<>>
                       /\ th[t].updated
                          => /\ NotifiedListeners(t) = rate_listeners
                             /\ \A i \in 1..Len(th[t].notified) :
                                    th[t].notified[i].snapshot = s
      ]_vars

\* A request on a bucket never observed got a 404 carrying 3, 3, 3: the
\* caller has the HTTP error, the bucket is at (3, 3, 3) and the two
\* listeners were called with it.
C13_Witness ==
    \E t \in Threads :
        /\ th[t].pc = "done"
        /\ th[t].result.kind = "HTTPError"
        /\ th[t].response # <<>>
        /\ th[t].response[1].status_code = 404
        /\ th[t].response[1].headers = Headers(<<"3">>, <<"3">>, <<"3">>)
        /\ th[t].entry = AllUnset
        /\ Snapshot(buckets, th[t].bucket) = Triple(3, 3, 3)
        /\ Len(th[t].notified) = 2
        /\ \A i \in 1..2 : th[t].notified[i].snapshot = Triple(3, 3, 3)

\* C14 as stated: in every interleaving of two threads, a request whose
\* after_response reported an update has called each registered listener
\* once with the bucket name and a snapshot equal to the values stored from
\* that response's headers; a request without an update has called none.
C14_SnapshotIsOwnResponse ==
    \A t \in DOMAIN th :
        (th[t].pc = "done" /\ th[t].call = "request" /\ th[t].response # <<>>)
        => IF th[t].updated
               THEN /\ NotifiedListeners(t) = th[t].registry
                    /\ \A i \in 1..Len(th[t].notified) :
                           LET h == th[t].response[1].headers
                               n == th[t].notified[i]
                           IN  /\ n.bucket = th[t].bucket
                               /\ Observation(h, HLimit) # <<>>
                                  => n.snapshot.limit = Observation(h, HLimit)
                               /\ Observation(h, HRemaining) # <<>>
                                  => n.snapshot.remaining =
                                         Observation(h, HRemaining)
                               /\ Observation(h, HReset) # <<>>
                                  => n.snapshot.reset_ts =
                                         Observation(h, HReset)
           ELSE th[t].notified = <<>>

\* C14, amended: in every interleaving of two threads, a request whose
\* after_response reported an update copies the listener list once,
\* takes one snapshot of the bucket as it is at that moment (after its own
\* update, and after whatever other threads did to the bucket since), and
\* calls each listener of the copy exactly once, in order, with the bucket
\* name and that snapshot; a request without an update calls none.
C14_SnapshotIsBucketAtNotification ==
    [][\A t \in DOMAIN th :
          /\ (Steps(t, "after") /\ th[t].call = "request")
             => /\ th'[t].pc = IF th'[t].updated THEN "notify" ELSE "status"
                /\ th'[t].notified = <<>>
          /\ Steps(t, "notify")
             => /\ th'[t].listeners = rate_listeners
                /\ th'[t].registry = rate_listeners
                /\ th'[t].notified = <<>>
          /\ Steps(t, "notify_snapshot")
             => /\ th'[t].snapshot = Snapshot(buckets, th[t].bucket)
                /\ th'[t].notified = <<>>
          /\ Steps(t, "notify_call")
             => /\ Len(th'[t].notified) = Len(th[t].notified) + 1
                /\ SubSeq(th'[t].notified, 1, Len(th[t].notified))
                       = th[t].notified
                /\ LET n == th'[t].notified[Len(th'[t].notified)]
                   IN  /\ n.listener = th[t].listeners[1]
                       /\ n.bucket = th[t].bucket
                       /\ n.snapshot = th[t].snapshot
          /\ ( /\ th[t].call = "request"
               /\ th[t].pc \in {"status", "done"}
               /\ th[t].response # <<>> )
             => IF th[t].updated
                    THEN /\ NotifiedListeners(t) = th[t].registry
                         /\ \A i, j \in 1..Len(th[t].registry) :
                                th[t].registry[i] = th[t].registry[j]
                                => i = j
                ELSE th[t].notified = <<>>
      ]_vars

\* Two threads: one stored 3, 3, 3 from its response, the other stored
\* remaining 0 before the first took its snapshot: the first thread's
\* listener was called once, with remaining 0.
C14_Witness ==
    \E t \in DOMAIN th :
        /\ th[t].pc = "done"
        /\ th[t].call = "request"
        /\ th[t].updated
        /\ th[t].response # <<>>
        /\ th[t].response[1].headers = Headers(<<"3">>, <<"3">>, <<"3">>)
        /\ Len(th[t].notified) = 1
        /\ th[t].notified[1].snapshot = Triple(3, 0, 3)

\* Whether callback l is in a listener list, and the list without it.
Registered(l, listeners) == \E i \in DOMAIN listeners : listeners[i] = l

Without(l, listeners) ==
    SelectSeq(listeners, LAMBDA x : x # l)

\* C15: the listener registry never holds a callback twice: adding a
\* registered callback and removing an unregistered one change nothing,
\* adding a new one appends it, removing a registered one takes it out; so
\* a notification pass calls each registered callback exactly once.
C15_RegistryHoldsEachCallbackOnce ==
    [][\A t \in DOMAIN th :
          /\ \A i, j \in DOMAIN rate_listeners :
                 rate_listeners[i] = rate_listeners[j] => i = j
          /\ Steps(t, "add_listener")
             => /\ rate_listeners' =
                       IF Registered(th[t].listener[1], rate_listeners)
                           THEN rate_listeners
                       ELSE rate_listeners \o th[t].listener
                /\ th'[t].pc = "done" /\ th'[t].result.kind = "ok"
          /\ Steps(t, "remove_listener")
             => /\ rate_listeners' =
                       IF Registered(th[t].listener[1], rate_listeners)
                           THEN Without(th[t].listener[1], rate_listeners)
                       ELSE rate_listeners
                /\ th'[t].pc = "done" /\ th'[t].result.kind = "ok"
          /\ ( /\ th[t].call = "request"
               /\ th[t].pc \in {"status", "done"}
               /\ th[t].updated )
             => \A l \in Callbacks :
                    Cardinality({ i \in DOMAIN th[t].notified :
                                      th[t].notified[i].listener = l })
                        = IF Registered(l, rate_listeners) THEN 1 ELSE 0
      ]_vars

\* add_rate_limit_listener was called for a callback the registry already
\* held next to another one: the call has returned and the registry is
\* what it was.
C15_Witness ==
    \E t \in DOMAIN th :
        /\ th[t].pc = "done"
        /\ th[t].call = "add_rate_limit_listener"
        /\ th[t].listener = <<"l1">>
        /\ th[t].registry = <<"l1", "l2">>
        /\ rate_listeners = <<"l1", "l2">>

\* C16: a listener that raises during a notification pass does not end the
\* pass and does not reach the caller: after each listener call, raising or
\* not, the pass goes on with the next listener while one is left, the
\* request has no error so far, and once the pass is over every listener of
\* the list was called and the request ends as the response's status says.
C16_RaisingListenerIsIsolated ==
    [][\A t \in DOMAIN th :
          /\ Steps(t, "notify_call")
             => /\ th'[t].result.kind = "none"
                /\ th'[t].pc = IF Len(th[t].listeners) > 1
                                   THEN "notify_call" ELSE "status"
                /\ th'[t].listeners =
                       SubSeq(th[t].listeners, 2, Len(th[t].listeners))
          /\ ( /\ th[t].pc = "done"
               /\ th[t].call = "request"
               /\ th[t].response # <<>>
               /\ \E i \in DOMAIN th[t].notified : th[t].notified[i].raised )
             => /\ Len(th[t].notified) = Len(th[t].registry)
                /\ \A i \in DOMAIN th[t].registry :
                       th[t].notified[i].listener = th[t].registry[i]
                /\ th[t].result.kind =
                       IF th[t].raise_for_status
                          /\ th[t].response[1].status_code >= 400
                           THEN "HTTPError" ELSE "ok"
      ]_vars

\* Two listeners, the first raised: the second was called all the same and
\* the request has returned its response.
C16_Witness ==
    \E t \in DOMAIN th :
        /\ th[t].pc = "done"
        /\ th[t].call = "request"
        /\ th[t].result.kind = "ok"
        /\ Len(th[t].notified) = 2
        /\ th[t].notified[1].raised
        /\ ~th[t].notified[2].raised
        /\ th[t].notified[2].listener = rate_listeners[2]

\* C17: within one notification pass the listeners are called in
\* registration order (the order of the registry, where a new callback is
\* appended at the end), one after the other on the requesting thread, and
\* the request has no result before the pass is over.
C17_ListenersInRegistrationOrder ==
    [][\A t \in DOMAIN th :
          /\ Steps(t, "add_listener")
             => \A i \in DOMAIN rate_listeners :
                    rate_listeners'[i] = rate_listeners[i]
          /\ th[t].pc \in {"notify", "notify_snapshot", "notify_call"}
             => th[t].result.kind = "none"
          /\ th[t].pc = "notify_call"
             => /\ NotifiedListeners(t) \o th[t].listeners = rate_listeners
                /\ th[t].listeners # <<>>
          /\ ( /\ th[t].pc \in {"status", "done"}
               /\ th[t].call = "request"
               /\ th[t].updated )
             => NotifiedListeners(t) = rate_listeners
      ]_vars

\* l2 was registered before l1: a request's pass has called l2 first and
\* l1 second, and the request has returned.
C17_Witness ==
    \E t \in DOMAIN th :
        /\ th[t].pc = "done"
        /\ th[t].call = "request"
        /\ th[t].result.kind = "ok"
        /\ rate_listeners = <<"l2", "l1">>
        /\ NotifiedListeners(t) = <<"l2", "l1">>

\* The poller loop leaves the position "where".
PollSteps(where) == poll_pc = where /\ poll_pc' # where

\* C18: a wait ends by the reset signal only when the signal is set; after
\* such a wake the loop clears the signal, issues no refresh call and waits
\* again (or ends, if told to stop); the poller's thread starts a refresh
\* call only from a wait that timed out, which happens only with no signal
\* set.
C18_SignalledWakeSkipsPoll ==
    [][/\ (poll_pc = "wait" /\ poll_pc' = "woken_signal")
          => poll_reset_event
       /\ (poll_pc = "wait" /\ poll_pc' = "woken_timeout")
          => ~poll_reset_event
       /\ PollSteps("woken_signal")
          => /\ poll_pc' = IF poll_stop_event THEN "exited" ELSE "wait"
             /\ ~poll_reset_event'
             /\ th["poller"].pc = "idle"
             /\ th'["poller"] = th["poller"]
       /\ (th["poller"].pc = "idle" /\ th'["poller"].pc # "idle")
          => poll_pc = "woken_timeout" /\ poll_pc' = "poll"
       /\ poll_pc' = "woken_timeout"
          => poll_pc \in {"wait", "woken_timeout"}
      ]_vars

\* The main thread's request stored fresh headers and signalled the poller:
\* the poller's wait has ended by the signal, no refresh call under way.
C18_Witness ==
    /\ poll_pc = "woken_signal"
    /\ poll_reset_event
    /\ th["main"].call = "request"
    /\ th["main"].updated
    /\ th["main"].pc \in {"status", "done"}
    /\ th["poller"].pc = "idle"
    /\ th["poller"].result.kind = "none"

\* C19: each time the wait of a started poller times out (no reset signal),
\* the loop issues one refresh call: get_json for its bucket enters the
\* request pipeline on the poller's thread, with raise-on-error-status, and
\* makes at most one transport call; and a poller waiting without a signal
\* eventually issues one, unless a signal arrives first.
C19_PollsOnTimeout ==
    /\ [][/\ PollSteps("woken_timeout")
             => /\ poll_pc' = "poll"
                /\ th["poller"].pc = "idle"
                /\ th'["poller"].pc = "gate"
                /\ th'["poller"].call = "request"
                /\ th'["poller"].bucket = "core"
                /\ th'["poller"].raise_for_status
                /\ th'["poller"].calls = 0
          /\ th["poller"].calls <= 1
          /\ poll_pc = "poll" <=> th["poller"].pc # "idle"
         ]_vars
    /\ (poll_pc = "wait" /\ ~poll_reset_event)
           ~> (poll_pc = "poll" \/ poll_reset_event)

\* The poller's wait timed out and its refresh call has gone through the
\* pipeline: one transport call, a response, no error.
C19_Witness ==
    /\ poll_pc = "poll"
    /\ poll_thread # <<>>
    /\ th["poller"].pc = "done"
    /\ th["poller"].calls = 1
    /\ th["poller"].result.kind = "ok"

\* C20: a refresh call that fails (transport error, HTTP error status,
\* kill-switch Blocked, or a body that is no JSON) is caught in the poll
\* loop: the loop goes back to its wait, the poller's handle stays, the
\* main thread is not touched, and the next timed-out wait polls again.
C20_PollFailureIsSwallowed ==
    [][/\ ( /\ poll_pc = "poll"
            /\ th["poller"].pc = "done"
            /\ th'["poller"].pc = "idle"
            /\ th'["poller"].result.kind # "ok" )
          => /\ th'["poller"].result.kind
                    \in {"TransportError", "HTTPError", "Blocked",
                         "TypeError", "ValueError"}
             /\ poll_pc' = IF poll_stop_event THEN "exited" ELSE "wait"
             /\ poll_thread' = poll_thread
             /\ th'["main"] = th["main"]
       /\ (poll_pc = "poll" /\ th["poller"].pc = "done")
          => th'["poller"].pc \in {"done", "idle"}
       /\ ( /\ PollSteps("woken_timeout")
            /\ th["poller"].result.kind # "ok" )
          => poll_pc' = "poll" /\ th'["poller"].pc = "gate"
      ]_vars

\* A refresh call was refused by the kill-switch; the loop has waited again
\* and its wait has timed out again: the next refresh call is due.
C20_Witness ==
    /\ poll_pc = "woken_timeout"
    /\ poll_thread # <<>>
    /\ th["poller"].pc = "idle"
    /\ th["poller"].result.kind = "Blocked"

\* The poller loops that have started and not returned.
LiveLoops == { l \in {"poller", "poller2"} :
                 (IF l = "poller" THEN poll_pc ELSE poll_pc2)
                     \notin {"none", "exited"} }

\* The handle is set and the loop it refers to is alive.
HandleLive == poll_thread # <<>> /\ poll_thread[1] \in LiveLoops

C22_StoppedLoopReturns ==
    /\ [][/\ (th["main"].pc = "stop_join" /\ th'["main"].pc = "idle")
             => poll_thread' = <<>>
          /\ (poll_thread = <<>> /\ poll_thread' # <<>>)
             => poll_thread'[1] \in LiveLoops' \ LiveLoops
         ]_vars
    /\ \A l \in {"poller", "poller2"} :
           ( /\ th["main"].pc = "stop_join"
             /\ poll_thread = <<l>>
             /\ l \in LiveLoops )
               ~> (l \notin LiveLoops)

\* C23: for each bucket, the dashboard's stored resource is the update
\* applied last for that bucket, whatever its source (client listener,
\* periodic fetch, bridge).
C23_StoredIsLastApplied ==
    \A b \in DOMAIN applied.last :
        /\ b \in DOMAIN resources
        /\ resources[b] = applied.last[b].resource

\* A pull starts: _fetch_rate_limit is entered.
PullStarts == fetch.pc = "idle" /\ fetch' # fetch

\* An update was applied to the dashboard less than the fetch interval ago.
RecentlyUpdated == applied.at # <<>> /\ now - applied.at[1] < 2

\* C24: the dashboard's periodic pull is throttled: when an update from any
\* source was applied less than fetch_interval ago it issues no /rate_limit
\* call, otherwise (no update yet, or the last one at least fetch_interval
\* old) it issues one; only a pull forced by a caller (the mount, the
\* user's refresh) bypasses the throttle.
C24_PeriodicPullIsThrottled ==
    [][PullStarts
       => IF fetch'.caller = "_poll_loop" /\ RecentlyUpdated
              THEN fetch'.pc = "idle" /\ fetch'.outcome = "skipped"
              ELSE fetch'.pc = "request"
      ]_vars

\* A line has just been read off the connection, and the line it was.
LineRead == Len(conn'.read) = Len(conn.read) + 1

TheLine == conn'.read[Len(conn'.read)]

\* Lines that are not valid JSON (an object cut short, an empty line), not
\* an object (an array), or without a non-empty bucket (none, or ""):
\*   {"bucket":"core","limit":60,"remaining":40,"reset_ts":90
\*   (an empty line)
\*   ["core"]
\*   {"limit":60}
\*   {"bucket":"","limit":60,"remaining":40,"reset_ts":90}
C25_BadLines ==
    {
        << "{", "\"", "b", "u", "c", "k", "e", "t", "\"", ":", "\"", "c",
           "o", "r", "e", "\"", ",", "\"", "l", "i", "m", "i", "t", "\"",
           ":", "6", "0", ",", "\"", "r", "e", "m", "a", "i", "n", "i", "n",
           "g", "\"", ":", "4", "0", ",", "\"", "r", "e", "s", "e", "t",
           "_", "t", "s", "\"", ":", "9", "0", "\n" >>,
        << "\n" >>,
        << "[", "\"", "c", "o", "r", "e", "\"", "]", "\n" >>,
        << "{", "\"", "l", "i", "m", "i", "t", "\"", ":", "6", "0", "}",
           "\n" >>,
        << "{", "\"", "b", "u", "c", "k", "e", "t", "\"", ":", "\"", "\"",
           ",", "\"", "l", "i", "m", "i", "t", "\"", ":", "6", "0", ",",
           "\"", "r", "e", "m", "a", "i", "n", "i", "n", "g", "\"", ":",
           "4", "0", ",", "\"", "r", "e", "s", "e", "t", "_", "t", "s",
           "\"", ":", "9", "0", "}", "\n" >>
    }

\* {"bucket":"core","limit":60,"remaining":40,"reset_ts":90}
C25_CoreLine ==
    << "{", "\"", "b", "u", "c", "k", "e", "t", "\"", ":", "\"", "c", "o",
       "r", "e", "\"", ",", "\"", "l", "i", "m", "i", "t", "\"", ":", "6",
       "0", ",", "\"", "r", "e", "m", "a", "i", "n", "i", "n", "g", "\"",
       ":", "4", "0", ",", "\"", "r", "e", "s", "e", "t", "_", "t", "s",
       "\"", ":", "9", "0", "}", "\n" >>

C25_CoreUpdate ==
    [bucket |-> << "c", "o", "r", "e" >>, limit |-> << 60 >>,
     remaining |-> << 40 >>, reset_ts |-> << 90 >>]

\* {"bucket":"core","limit":30,"remaining":[7],"reset_ts":null}
C25_OtherLine ==
    << "{", "\"", "b", "u", "c", "k", "e", "t", "\"", ":", "\"", "c", "o",
       "r", "e", "\"", ",", "\"", "l", "i", "m", "i", "t", "\"", ":", "3",
       "0", ",", "\"", "r", "e", "m", "a", "i", "n", "i", "n", "g", "\"",
       ":", "[", "7", "]", ",", "\"", "r", "e", "s", "e", "t", "_", "t",
       "s", "\"", ":", "n", "u", "l", "l", "}", "\n" >>

C25_OtherUpdate ==
    [bucket |-> << "c", "o", "r", "e" >>, limit |-> << 30 >>,
     remaining |-> <<>>, reset_ts |-> <<>>]

C26_WordLine ==
    << "{", "\"", "b", "u", "c", "k", "e", "t", "\"", ":", "\"", "s", "e",
       "a", "r", "c", "h", "\"", ",", "\"", "l", "i", "m", "i", "t", "\"",
       ":", "\"", "3", "0", "\"", ",", "\"", "r", "e", "m", "a", "i", "n",
       "i", "n", "g", "\"", ":", "\"", "x", "\"", ",", "\"", "r", "e", "s",
       "e", "t", "_", "t", "s", "\"", ":", "9", "0", "}", "\n" >>

\* {"bucket":"search","limit":30,"remaining":1e999,"reset_ts":90}
C26_HugeLine ==
    << "{", "\"", "b", "u", "c", "k", "e", "t", "\"", ":", "\"", "s", "e",
       "a", "r", "c", "h", "\"", ",", "\"", "l", "i", "m", "i", "t", "\"",
       ":", "3", "0", ",", "\"", "r", "e", "m", "a", "i", "n", "i", "n",
       "g", "\"", ":", "1", "e", "9", "9", "9", ",", "\"", "r", "e", "s",
       "e", "t", "_", "t", "s", "\"", ":", "9", "0", "}", "\n" >>

\* C26: a bridge line whose limit, remaining or reset_ts does not parse as
\* an integer is stored with that field null and the other fields as sent,
\* and the connection stays open: limit "30", remaining "x", reset_ts 90
\* is stored as 30, null, 90; and so is limit 30, remaining 1e999,
\* reset_ts 90.
C26_UnparsedFieldIsNull ==
    [][(LineRead /\ TheLine \in {C26_WordLine, C26_HugeLine})
       => /\ conn'.pc = "open"
          /\ << "s", "e", "a", "r", "c", "h" >> \in DOMAIN resources'
          /\ LET stored == resources'[<< "s", "e", "a", "r", "c", "h" >>]
             IN  /\ stored.limit = << 30 >>
                 /\ stored.remaining = <<>>
                 /\ stored.reset_ts = << 90 >>
      ]_vars

\* C27: the bridge round trip: an update with a non-empty bucket and
\* integer-or-null fields that emit_update has sent to the listening
\* dashboard is decoded by the reader into an equal update, the only one
\* of its connection, and emit_update has returned true.
C27_EmittedUpdateRoundTrips ==
    (conn.emitted # <<>> /\ conn.pc # "none")
    => /\ conn.returned = << TRUE >>
       /\ Len(conn.read) <= 1
       /\ (conn.read # <<>> /\ conn.emitted[1].bucket # <<>>)
          => conn.delivered = << conn.emitted[1] >>
       /\ conn.delivered # <<>>
          => resources[conn.emitted[1].bucket]
                 = [bucket |-> conn.emitted[1].bucket,
                    limit |-> conn.emitted[1].limit,
                    remaining |-> conn.emitted[1].remaining,
                    reset_ts |-> conn.emitted[1].reset_ts]

\* The update a"\b with no limit, remaining -1 and reset 90 has made the
\* round trip.
C27_Witness ==
    /\ conn.emitted
           = << [bucket |-> << "a", "\"", "\\", "b" >>, limit |-> <<>>,
                 remaining |-> << -1 >>, reset_ts |-> << 90 >>] >>
    /\ conn.returned = << TRUE >>
    /\ conn.delivered = conn.emitted
    /\ conn.pc = "closed"

\* C28: the gate's read and clear of the kill-switch deadline are atomic
\* with respect to set_killswitch: a request's gate clears only a deadline
\* that has passed, so a deadline in the future that another thread has
\* set meanwhile is never lost.
C28_GateClearsOnlyPassedDeadline ==
    [][\A t \in {"main", "worker"} :
          (th[t].pc = "gate_clear" /\ th'[t].pc # "gate_clear"
           /\ killswitch_until # <<>>)
          => killswitch_until[1] <= now
      ]_vars

\* C29: before_request sleeps with the governor's lock released: while a
\* thread is in the sleep nobody holds the lock, and the other thread's
\* before_request, after_response and snapshot, on the same bucket or on
\* another, can take their step at once.
C29_SleepsWithLockReleased ==
    \A t \in {"main", "worker"} :
        th[t].pc = "sleep"
        => /\ keeper_lock = <<>>
           /\ \A u \in {"main", "worker"} \ {t} :
                  /\ th[u].pc = "before" => ENABLED BeforeRequest(u)
                  /\ th[u].pc = "after" => ENABLED AfterResponse(u)
                  /\ th[u].pc = "idle"
                     => \A b \in {"core", "graphql"} :
                            ENABLED CallSnapshot(u, b)

\* While main sleeps for bucket core (it found remaining 0 of 3), the
\* worker's after_response has put the bucket's remaining to 3.
C29_Witness ==
    /\ th["main"].pc = "sleep"
    /\ th["main"].bucket = "core"
    /\ th["main"].sleep_for # <<>>
    /\ th["worker"].pc = "done"
    /\ th["worker"].call = "after_response"
    /\ th["worker"].bucket = "core"
    /\ th["worker"].updated
    /\ "core" \in DOMAIN buckets
    /\ buckets["core"].remaining = << 3 >>

\* C30: a request refused by the kill-switch never reaches the governor:
\* the refusal comes straight from the gate, whatever the bucket's remaining
\* quota, and the request has caused no sleep, no decrement (the bucket is
\* as it was when the request started), no transport call, no listener
\* notification and no reset of the poller's timer.
C30_RefusedRequestSkipsGovernor ==
    [][\A t \in {"main"} :
          /\ ( /\ Steps(t, "gate_compare")
               /\ killswitch_until # <<>>
               /\ now < killswitch_until[1] )
             => th'[t].result.kind = "Blocked"
          /\ (th[t].pc \in {"gate", "gate_compare"} /\ th'[t] # th[t])
             => /\ buckets' = buckets
                /\ poll_reset_event' = poll_reset_event
          /\ (th'[t].result.kind = "Blocked" /\ th[t].result.kind # "Blocked")
             => /\ th[t].pc = "gate_compare"
                /\ th'[t].pc = "done"
                /\ th'[t].slept = <<>>
                /\ th'[t].calls = 0
                /\ th'[t].notified = <<>>
                /\ IF th[t].bucket \in DOMAIN buckets'
                       THEN buckets'[th[t].bucket] = th[t].entry
                       ELSE th[t].entry = AllUnset
      ]_vars

\* A request for bucket core was refused although the bucket had quota
\* left; the bucket is as it was, nothing was slept, sent or notified.
C30_Witness ==
    /\ th["main"].result.kind = "Blocked"
    /\ th["main"].pc = "done"
    /\ th["main"].bucket = "core"
    /\ "core" \in DOMAIN buckets
    /\ buckets["core"].remaining # <<>>
    /\ buckets["core"].remaining[1] > 0
    /\ buckets["core"] = th["main"].entry
    /\ th["main"].slept = <<>>
    /\ th["main"].calls = 0
    /\ th["main"].notified = <<>>
    /\ ~poll_reset_event

\* ------------------------------------------------------------ C31 .. C40

\* A bucket with limit l and remaining r and no reset timestamp.
Pair(l, r) == [limit |-> <<l>>, remaining |-> <<r>>, reset_ts |-> <<>>]

\* C31, as stated: a before_request that finds limit and remaining set and
\* the reset timestamp unset or not later than now clears all three fields
\* and returns without a sleep and without a decrement.
C31_ClearsStaleState ==
    [][\A t \in Threads :
          LET b == th[t].bucket
              s == Snapshot(buckets, b)
          IN  ( /\ Steps(t, "before")
                /\ s.limit # <<>> /\ s.remaining # <<>>
                /\ (s.reset_ts = <<>> \/ s.reset_ts[1] <= now) )
              => /\ Snapshot(buckets', b) = AllUnset
                 /\ th'[t].pc # "sleep"
                 /\ th'[t].slept = <<>>
      ]_vars

\* C31, as the code has it: with limit and remaining set, a reset timestamp
\* that is set and not later than now clears all three fields; an unset one
\* clears nothing, and remaining is counted down by 1 unless it is 0.  In
\* both cases the call returns without a sleep.
C31_ClearsOnlyPassedWindow ==
    [][\A t \in Threads :
          LET b == th[t].bucket
              s == Snapshot(buckets, b)
          IN  ( /\ Steps(t, "before")
                /\ s.limit # <<>> /\ s.remaining # <<>> )
              => /\ (s.reset_ts # <<>> /\ s.reset_ts[1] <= now)
                    => /\ Snapshot(buckets', b) = AllUnset
                       /\ th'[t].pc # "sleep"
                       /\ th'[t].slept = <<>>
                 /\ s.reset_ts = <<>>
                    => /\ Snapshot(buckets', b) =
                              [ limit |-> s.limit,
                                remaining |->
                                    IF s.remaining[1] > 0
                                        THEN <<s.remaining[1] - 1>>
                                        ELSE s.remaining,
                                reset_ts |-> <<>> ]
                       /\ th'[t].pc # "sleep"
                       /\ th'[t].slept = <<>>
      ]_vars

\* A before_request that found limit 3 and remaining 3 with no reset
\* timestamp has returned without a sleep, and the bucket holds limit 3 and
\* remaining 2: nothing was cleared.
C31_Witness ==
    \E t \in Threads :
        /\ th[t].pc = "done"
        /\ th[t].call = "before_request"
        /\ th[t].entry = Pair(3, 3)
        /\ th[t].slept = <<>>
        /\ Snapshot(buckets, th[t].bucket) = Pair(3, 2)

\* C32: a before_request that finds remaining at 0 and the reset timestamp
\* unset or not later than now does not sleep and takes nothing off
\* remaining: the bucket is left as it was, or all unset when the reset had
\* passed; and no before_request takes a remaining of 0 or more below 0.
C32_FailsOpenAtZero ==
    [][\A t \in Threads :
          LET b == th[t].bucket
              s == Snapshot(buckets, b)
              s2 == Snapshot(buckets', b)
          IN  /\ ( /\ Steps(t, "before")
                   /\ s.remaining = <<0>>
                   /\ (s.reset_ts = <<>> \/ s.reset_ts[1] <= now) )
                 => /\ th'[t].pc = "done"
                    /\ th'[t].sleep_for = <<>>
                    /\ th'[t].slept = <<>>
                    /\ s2 = (IF s.reset_ts = <<>> THEN s ELSE AllUnset)
              /\ ( /\ Steps(t, "before")
                   /\ s.remaining # <<>>
                   /\ s.remaining[1] >= 0 )
                 => (s2.remaining = <<>> \/ s2.remaining[1] >= 0)
      ]_vars

\* A before_request that found limit 3 and remaining 0 with no reset
\* timestamp has returned without a sleep, and remaining is still 0.
C32_Witness ==
    \E t \in Threads :
        /\ th[t].pc = "done"
        /\ th[t].call = "before_request"
        /\ th[t].entry = Pair(3, 0)
        /\ th[t].slept = <<>>
        /\ Snapshot(buckets, th[t].bucket) = Pair(3, 0)

\* C33: with header values that are blank, not numbers or non-negative
\* integers, every bucket's limit and remaining are unset or at least 0 in
\* every reachable state.
C33_LimitAndRemainingNotNegative ==
    \A b \in DOMAIN buckets :
        /\ (buckets[b].limit = <<>> \/ buckets[b].limit[1] >= 0)
        /\ (buckets[b].remaining = <<>> \/ buckets[b].remaining[1] >= 0)

\* A before_request that found limit 3 and remaining 1 (no reset timestamp,
\* so no sleep at the floor) has counted remaining down to 0.
C33_Witness ==
    \E t \in Threads :
        /\ th[t].pc = "done"
        /\ th[t].call = "before_request"
        /\ th[t].entry = Pair(3, 1)
        /\ Snapshot(buckets, th[t].bucket) = Pair(3, 0)

\* C36: a before_request that finds limit, remaining and the reset set, the
\* reset still ahead, either finds remaining above the soft floor, and then
\* returns without a sleep leaving remaining exactly 1 lower and not below
\* the floor, or finds it at or under the floor, and then sleeps and leaves
\* remaining as it is.  So from remaining r above the floor exactly
\* r - floor calls in a row return without a sleep, and each later call
\* before the reset sleeps.
C36_CountsDownToFloorThenSleeps ==
    [][\A t \in Threads :
          LET b == th[t].bucket
              s == Snapshot(buckets, b)
              s2 == Snapshot(buckets', b)
          IN  ( /\ Steps(t, "before")
                /\ s.limit # <<>> /\ s.remaining # <<>> /\ s.reset_ts # <<>>
                /\ now < s.reset_ts[1] )
              => LET floor == StatedSoftFloor(s.limit[1])
                     r == s.remaining[1]
                 IN  /\ r > floor
                        => /\ th'[t].pc = "done"
                           /\ th'[t].slept = <<>>
                           /\ s2 = [s EXCEPT !.remaining = <<r - 1>>]
                           /\ r - 1 >= floor
                     /\ r <= floor
                        => /\ th'[t].pc = "sleep"
                           /\ s2 = s
      ]_vars

\* Limit 3 (soft floor 1), reset at 3: a before_request has found remaining
\* counted down from 3 to 1 and is about to sleep, with remaining still 1.
C36_Witness ==
    \E t \in Threads :
        /\ th[t].pc = "sleep"
        /\ th[t].call = "before_request"
        /\ th[t].entry = Triple(3, 1, 3)
        /\ now < 3
        /\ Snapshot(buckets, th[t].bucket) = Triple(3, 1, 3)

\* The threads inside a before_request on bucket b that have not yet taken
\* the lock.
InFlight(b) ==
    { t \in {"main", "worker"} :
          th[t].pc = "before" /\ th[t].call = "before_request"
          /\ th[t].bucket = b }

\* C37: with k threads inside before_request on one bucket whose reset is
\* ahead and whose remaining is at least softFloor + k, each of them, when
\* it takes the lock, leaves remaining exactly 1 lower and the other calls
\* still to come: remaining minus the number of calls in flight does not
\* change, so it ends exactly k lower when the k calls have returned.
C37_DecrementsAreAtomic ==
    [][\A t \in {"main", "worker"} :
          LET b == th[t].bucket
              s == Snapshot(buckets, b)
              s2 == Snapshot(buckets', b)
              k == Cardinality(InFlight(b))
          IN  ( /\ Steps(t, "before")
                /\ t \in InFlight(b)
                /\ s.limit # <<>> /\ s.remaining # <<>> /\ s.reset_ts # <<>>
                /\ now < s.reset_ts[1]
                /\ s.remaining[1] >= StatedSoftFloor(s.limit[1]) + k )
              => /\ s2 = [s EXCEPT !.remaining = <<s.remaining[1] - 1>>]
                 /\ th'[t].pc = "done"
                 /\ InFlight(b)' = InFlight(b) \ {t}
                 /\ s2.remaining[1] - Cardinality(InFlight(b)')
                        = s.remaining[1] - k
      ]_vars

\* Both threads called before_request on a bucket at (3, 3, 3), soft floor
\* 1, while the other's call was in flight; both have returned without a
\* sleep and remaining is 1.
C37_Witness ==
    /\ \A t \in {"main", "worker"} :
           /\ th[t].pc = "done"
           /\ th[t].call = "before_request"
           /\ th[t].bucket = "core"
           /\ th[t].entry = Triple(3, 3, 3)
           /\ th[t].slept = <<>>
    /\ Snapshot(buckets, "core") = Triple(3, 1, 3)

\* The triple thread t's response reports.
Reported(t) == IF t = "main" THEN Triple(3, 3, 3) ELSE Triple(5, 4, 9)

\* The states of a bucket that are no mix of two responses.
Whole == {AllUnset, Triple(3, 3, 3), Triple(5, 4, 9)}

\* C34: after_response calls of two threads on one bucket are applied one
\* at a time: the call that takes the lock leaves the bucket at exactly the
\* triple it reports, whatever the other call has written or is about to
\* write, and touches no other bucket and no other call; and the bucket,
\* like every snapshot taken of it, is all unset or one response's triple,
\* never a mix of two.
C34_ResponsesApplyOneAtATime ==
    /\ [](/\ \A b \in {"core", "graphql"} : Snapshot(buckets, b) \in Whole
          /\ \A t \in {"main", "worker"} :
                 th[t].call = "snapshot" => th[t].snapshot \in Whole)
    /\ [][\A t \in {"main", "worker"} :
             Steps(t, "after")
             => /\ Snapshot(buckets', th[t].bucket) = Reported(t)
                /\ th'[t].updated
                /\ \A b \in {"core", "graphql"} \ {th[t].bucket} :
                       Snapshot(buckets', b) = Snapshot(buckets, b)
                /\ \A u \in {"main", "worker"} \ {t} : th'[u] = th[u]
         ]_vars

\* Both threads called after_response on bucket core while it was all
\* unset, so both calls were in flight together; both have returned, and
\* the bucket holds main's triple: the worker's was applied first and main's
\* replaced it whole.
C34_Witness ==
    /\ \A t \in {"main", "worker"} :
           /\ th[t].pc = "done"
           /\ th[t].call = "after_response"
           /\ th[t].bucket = "core"
           /\ th[t].entry = AllUnset
           /\ th[t].updated
    /\ Snapshot(buckets, "core") = Triple(3, 3, 3)

\* Thread t is in a notification pass, past the copy of the listener list.
InPass(t) == th[t].pc \in {"notify_snapshot", "notify_call"}

\* C35: a callback registered or removed while a notification pass runs, by
\* another thread or by a listener the pass is calling, never blocks: the
\* caller gets the listener lock at once, a listener's own call included.
\* The pass goes on over the list it copied: what it has called and what it
\* has still to call make up that copy at every moment, and at its end it
\* has called exactly the listeners of the copy, in order.  The change is in
\* the registry, so the next pass copies it.
C35_PassRunsOverItsCopy ==
    /\ [](\A t \in {"main", "worker"} :
            /\ th[t].pc = "notify_call"
               => \A l \in {"l1", "l2"}, add \in BOOLEAN :
                      ENABLED ListenerCall(t, l, add)
            /\ th[t].pc = "add_listener" => ENABLED LockedAdd(t)
            /\ th[t].pc = "remove_listener" => ENABLED LockedRemove(t)
            /\ InPass(t)
               => NotifiedListeners(t) \o th[t].listeners = th[t].registry)
    /\ [][\A t \in {"main", "worker"} :
             /\ Steps(t, "notify")
                => /\ th'[t].registry = rate_listeners
                   /\ th'[t].listeners = rate_listeners
                   /\ th'[t].notified = <<>>
             /\ InPass(t) => th'[t].registry = th[t].registry
             /\ (InPass(t) /\ th'[t].pc = "status")
                => [i \in 1..Len(th'[t].notified) |->
                        th'[t].notified[i].listener] = th[t].registry
             /\ Steps(t, "notify_call")
                => \/ rate_listeners' = rate_listeners
                   \/ \E l \in {"l1", "l2"} :
                          /\ ~Registered(l, rate_listeners)
                          /\ rate_listeners' = rate_listeners \o <<l>>
                   \/ \E l \in {"l1", "l2"} :
                          /\ Registered(l, rate_listeners)
                          /\ rate_listeners' = Without(l, rate_listeners)
         ]_vars

\* A pass copied the list (l1, l2) and has called l1; l2 has been removed
\* from the registry since, and is still the next listener of the pass.
C35_Witness ==
    /\ th["main"].pc = "notify_call"
    /\ th["main"].registry = <<"l1", "l2">>
    /\ NotifiedListeners("main") = <<"l1">>
    /\ th["main"].listeners = <<"l2">>
    /\ rate_listeners = <<"l1">>

\* C38: at every moment at most one poller loop of the client is alive,
\* whatever the sequence of start_rate_limit_polling and
\* stop_rate_limit_polling calls, a start after a stop whose join timed out
\* included.
C38_AtMostOneLiveLoop ==
    Cardinality({ l \in {"poller", "poller2"} :
                      (IF l = "poller" THEN poll_pc ELSE poll_pc2)
                          \notin {"none", "exited"} }) <= 1

\* C39: the dashboard's last-update timestamp never decreases: once set it
\* stays set, and every update applied (from the client's listeners, from
\* the bridge, from a pull that has returned) leaves it at least what it
\* was, also when a listener's or the bridge's update was applied while the
\* pull was under way.
C39_LastUpdateNeverDecreases ==
    [][meta.last_update_ts # <<>>
       => /\ meta'.last_update_ts # <<>>
          /\ meta'.last_update_ts[1] >= meta.last_update_ts[1]
      ]_vars

\* C40: an update leaves the stored resources of the buckets it does not
\* mention as they are: no stored bucket is ever dropped, and an entry
\* changes only in an update that carries that bucket, to what the update
\* carries for it.
C40_UnmentionedBucketsKept ==
    [][\A b \in DOMAIN resources :
          /\ b \in DOMAIN resources'
          /\ resources'[b] # resources[b]
             => /\ applied' # applied
                /\ b \in DOMAIN applied'.last
                /\ applied'.last[b].resource = resources'[b]
      ]_vars

=============================================================================
